---- MODULE Spec2Model ----
(***************************************************************************)
(* Model of the fee tracker's ingestion and categorisation pipeline        *)
(* (src/fee_tracker.py, src/student_mappings.py).                           *)
(*                                                                         *)
(* Strings are sequences of one-character strings, so that tokenising,     *)
(* trimming, formatting and concatenation are computed character by        *)
(* character.  The character U+20B9 (rupee sign) is the atom "Rs".         *)
(* Monetary amounts (Python floats in the source) are integers counting    *)
(* hundredths: 500.00 is 50000.  None is the integer -1 where the source   *)
(* holds "a fee or None"; fees of the model are never negative.            *)
(***************************************************************************)
EXTENDS Integers, Sequences, FiniteSets, TLC

\* ---------------------------------------------------------------- bounds
\* characters typed into the fields of one tokenizer input line
MaxChars == 2
\* fields of one tokenizer input line
MaxFields == 2
\* category definitions in the configured list
MaxCats == 2
\* entries of the name mapping table
MaxMappings == 2
\* data lines of an ingested statement
MaxLines == 2

None == -1

\* transaction['category'] = None
NoCategory == <<"None">>

\* self.current_csv_file = None: no statement has been picked yet
NoFile == <<<<"None">>>>

\* ---------------------------------------------------------------- state
VARIABLES
  categories,             \* self.categories: list of {name, fee}
  objs,                   \* the transaction dicts, by object identity
  transactions,           \* self.transactions: list of references into objs
  categorized_data,       \* self.categorized_data: ordered dict key -> list of references
  selected_transactions,  \* self.selected_transactions: set of transaction ids
  table,                  \* the check boxes of the rendered rows: bound id and state
  raised,                 \* the exception that escaped the last handler, or "none"
  STUDENT_NAME_MAPPINGS,  \* the name mapping table, in insertion order
  dialog,                 \* the open CategoryManagerDialog and its own categories
  current_csv_file,       \* self.current_csv_file: the loaded statement, or NoFile
  journal,                \* the statements' folder: whether files can be written to
                          \* it, and its <stem>_edits.json files, one per statement
  search_timer,           \* self.search_timer: milliseconds left, or None when inactive
  search_input,           \* the text of the search box
  search_group,           \* whether the search panel is visible
  color_cache,            \* self.color_cache: the keys that have a colour
  updating_display,       \* self._updating_display
  render,                 \* the position of the update_display call in progress
  probe                   \* the call of a pure function under examination

vars == <<categories, objs, transactions, categorized_data, selected_transactions,
          table, raised, STUDENT_NAME_MAPPINGS, dialog, current_csv_file, journal,
          search_timer, search_input, search_group, color_cache, updating_display, render,
          probe>>

\* the search box, its timer and the flag of update_display
searchVars == <<search_timer, search_input, search_group, updating_display, render>>

appVars == <<categories, objs, transactions, categorized_data, selected_transactions,
             table, raised, STUDENT_NAME_MAPPINGS, dialog, current_csv_file, journal,
             search_timer, search_input, search_group, color_cache, updating_display, render>>

Min(S) == CHOOSE x \in S : \A y \in S : x <= y

\* ---------------------------------------------------------------- strings
RECURSIVE Flatten(_)
Flatten(ss) == IF ss = <<>> THEN <<>> ELSE Head(ss) \o Flatten(Tail(ss))

RECURSIVE JoinWith(_, _)
JoinWith(sep, ss) ==
  IF ss = <<>> THEN <<>>
  ELSE IF Len(ss) = 1 THEN ss[1]
  ELSE ss[1] \o sep \o JoinWith(sep, Tail(ss))

Contains(s, c) == \E i \in 1..Len(s) : s[i] = c

\* ---------------------------------------------------------------- str methods
UpperChars == <<"A", "B", "C", "D", "E", "F", "G", "H", "I", "J", "K", "L", "M", "N", "O", "P", "Q", "R", "S", "T", "U", "V", "W", "X", "Y", "Z">>
LowerChars == <<"a", "b", "c", "d", "e", "f", "g", "h", "i", "j", "k", "l", "m", "n", "o", "p", "q", "r", "s", "t", "u", "v", "w", "x", "y", "z">>

IsUpper(c) == \E i \in 1..Len(UpperChars) : UpperChars[i] = c
IsLower(c) == \E i \in 1..Len(LowerChars) : LowerChars[i] = c
ToLowerC(c) == IF IsUpper(c) THEN LowerChars[CHOOSE i \in 1..Len(UpperChars) : UpperChars[i] = c] ELSE c
ToUpperC(c) == IF IsLower(c) THEN UpperChars[CHOOSE i \in 1..Len(LowerChars) : LowerChars[i] = c] ELSE c

\* s.lower()
Lower(s) == [i \in 1..Len(s) |-> ToLowerC(s[i])]

\* the characters str.split() and str.strip() treat as white space
Whitespace == {" ", "\t", "\n", "\r", "\f"}

\* s.replace(c, "")
Remove(s, c) == SelectSeq(s, LAMBDA x : x # c)

\* s.split(): the maximal runs of non-white-space characters
RECURSIVE SplitWs(_, _, _)
SplitWs(s, words, cur) ==
  IF s = <<>> THEN (IF cur # <<>> THEN Append(words, cur) ELSE words)
  ELSE IF Head(s) \in Whitespace
       THEN SplitWs(Tail(s), IF cur # <<>> THEN Append(words, cur) ELSE words, <<>>)
       ELSE SplitWs(Tail(s), words, Append(cur, Head(s)))

\* " ".join(s.split())
NormalizeSpaces(s) == JoinWith(<<" ">>, SplitWs(s, <<>>, <<>>))

\* s.title(): a cased character is upper-cased when the character before it is
\* not cased, lower-cased otherwise
RECURSIVE TitleFrom(_, _)
TitleFrom(s, prev_cased) ==
  IF s = <<>> THEN <<>>
  ELSE LET c == Head(s)
           cased == IsUpper(c) \/ IsLower(c)
       IN <<IF ~cased THEN c ELSE IF prev_cased THEN ToLowerC(c) ELSE ToUpperC(c)>>
            \o TitleFrom(Tail(s), cased)

Title(s) == TitleFrom(s, FALSE)

\* s.strip(chars): drop leading and trailing characters that are in chars
RECURSIVE LStrip(_, _)
LStrip(s, chars) == IF s # <<>> /\ Head(s) \in chars THEN LStrip(Tail(s), chars) ELSE s
RECURSIVE RStrip(_, _)
RStrip(s, chars) ==
  IF s # <<>> /\ s[Len(s)] \in chars THEN RStrip(SubSeq(s, 1, Len(s) - 1), chars) ELSE s
Strip(s, chars) == RStrip(LStrip(s, chars), chars)

\* s.split(sep) for a one-character separator
RECURSIVE SplitOn(_, _, _, _)
SplitOn(s, sep, words, cur) ==
  IF s = <<>> THEN Append(words, cur)
  ELSE IF Head(s) = sep THEN SplitOn(Tail(s), sep, Append(words, cur), <<>>)
  ELSE SplitOn(Tail(s), sep, words, Append(cur, Head(s)))

Split(s, sep) == SplitOn(s, sep, <<>>, <<>>)

\* ---------------------------------------------------------------- name resolver
\* what one matching strategy compares: 1 exact, 2 case-insensitive,
\* 3 space-removed, 4 space-removed and case-insensitive
StrategyForm(k, s) ==
  IF k = 1 THEN s
  ELSE IF k = 2 THEN Lower(s)
  ELSE IF k = 3 THEN Remove(s, " ")
  ELSE Lower(Remove(s, " "))

\* the first entry of the table, in its iteration order, that strategy k matches, or 0
RECURSIVE FirstMatch(_, _, _, _)
FirstMatch(mappings, k, name, i) ==
  IF i > Len(mappings) THEN 0
  ELSE IF StrategyForm(k, mappings[i].key) = StrategyForm(k, name) THEN i
  ELSE FirstMatch(mappings, k, name, i + 1)

\* the strategies tried in the given order, then the title-cased fall-back
RECURSIVE TryStrategies(_, _, _)
TryStrategies(mappings, order, name) ==
  IF order = <<>> THEN Title(name)
  ELSE LET i == FirstMatch(mappings, Head(order), name, 1)
       IN IF i # 0 THEN mappings[i].value
          ELSE TryStrategies(mappings, Tail(order), name)

\* a mutant: the space-removed strategy tried before the case-insensitive one
GetFullNameSpaceFirst(mappings, short_name) ==
  TryStrategies(mappings, <<1, 3, 2, 4>>, NormalizeSpaces(short_name))

\* get_full_name, with the module's table as a parameter
GetFullName(mappings, short_name) ==
  TryStrategies(mappings, <<1, 2, 3, 4>>, NormalizeSpaces(short_name))

get_full_name(short_name) == GetFullName(STUDENT_NAME_MAPPINGS, short_name)

\* ---------------------------------------------------------------- tokenizer
\* a mutant: the ="..." field closes at its first quote, whatever follows it
LegacyEndAnyQuote(line, j) ==
  LET quotes == {k \in j..Len(line) : line[k] = "\""}
  IN IF quotes = {} THEN Len(line) + 1 ELSE Min(quotes)

\* The inner loop of the ="..." branch, started at index j: the index at which
\* it stops, either the first closing quote (a quote followed by end of line,
\* comma, LF or CR) or, without one, Len+1.
LegacyEnd(line, j) ==
  LET closers == {k \in j..Len(line) :
                    line[k] = "\"" /\ (k + 1 > Len(line) \/ line[k+1] \in {",", "\n", "\r"})}
  IN IF closers = {} THEN (IF j > Len(line) THEN j ELSE Len(line) + 1) ELSE Min(closers)

\* the characters at which the outer loop leaves its final else branch: a
\* quote, a comma, or an equals sign directly followed by a quote
Special(line, k) ==
  \/ line[k] \in {"\"", ","}
  \/ line[k] = "=" /\ k + 1 <= Len(line) /\ line[k+1] = "\""

\* the end of the run of else-branch characters that starts at i
RunEnd(line, i) ==
  LET stops == {k \in i..Len(line) : Special(line, k)}
  IN IF stops = {} THEN Len(line) + 1 ELSE Min(stops)

\* The outer while loop of parse_csv_line; i is the 1-based scan position.  The
\* iterations of the final else branch (current += char) over a run of
\* consecutive ordinary characters are taken in one step.
RECURSIVE ParseLoop(_, _, _, _, _)
ParseLoop(line, i, parts, current, in_quotes) ==
  IF i > Len(line)
  THEN IF current # <<>> \/ in_quotes THEN Append(parts, current) ELSE parts
  ELSE LET char == line[i] IN
    IF char = "=" /\ i + 1 <= Len(line) /\ line[i+1] = "\""
    THEN LET j     == LegacyEnd(line, i + 2)
             field == SubSeq(line, i + 2, j - 1)
             k     == j + 1
             next  == IF k <= Len(line) /\ line[k] = "," THEN k + 1 ELSE k
         IN ParseLoop(line, next, Append(parts, field), current, in_quotes)
    ELSE IF char = "\"" /\ ~in_quotes
    THEN ParseLoop(line, i + 1, parts, current, TRUE)
    ELSE IF char = "\"" /\ in_quotes
    THEN LET k    == i + 1
             next == IF k <= Len(line) /\ line[k] = "," THEN k + 1 ELSE k
         IN ParseLoop(line, next, Append(parts, current), <<>>, FALSE)
    ELSE IF char = ","
    THEN IF ~in_quotes
         THEN ParseLoop(line, i + 1, Append(parts, current), <<>>, in_quotes)
         ELSE ParseLoop(line, i + 1, parts, Append(current, char), in_quotes)
    ELSE LET e == RunEnd(line, i)
         IN ParseLoop(line, e, parts, current \o SubSeq(line, i, e - 1), in_quotes)

parse_csv_line(line) == ParseLoop(line, 1, <<>>, <<>>, FALSE)

\* ---------------------------------------------------------------- category keys
Digits == <<"0", "1", "2", "3", "4", "5", "6", "7", "8", "9">>

\* str(n) for an integer n >= 0
RECURSIVE IntToStr(_)
IntToStr(n) == IF n < 10 THEN <<Digits[n + 1]>> ELSE IntToStr(n \div 10) \o <<Digits[(n % 10) + 1]>>

\* the integer f"{x:.0f}" prints for x >= 0 held in hundredths: round half to even
RoundHalfEven(h) ==
  LET q == h \div 100
      r == h % 100
  IN IF r < 50 THEN q
     ELSE IF r > 50 THEN q + 1
     ELSE IF q % 2 = 0 THEN q ELSE q + 1

Format0f(h) == IntToStr(RoundHalfEven(h))

\* a mutant: the key without the fee suffix
KeyNameOnly(name, fee) == name

get_category_key(name, fee) ==
  IF fee # None
  THEN name \o <<" ", "(", "Rs">> \o Format0f(fee) \o <<")">>
  ELSE name

KeyOf(cat) == get_category_key(cat.name, cat.fee)

Uncategorized == <<"U", "n", "c", "a", "t", "e", "g", "o", "r", "i", "z", "e", "d">>

\* the first loop of categorize_transaction: the index of the first fixed-fee
\* definition equal to the amount, or 0
RECURSIVE FirstFixed(_, _, _)
FirstFixed(cats, amount, i) ==
  IF i > Len(cats) THEN 0
  ELSE IF cats[i].fee # None /\ amount = cats[i].fee THEN i
  ELSE FirstFixed(cats, amount, i + 1)

\* the second loop: the index of the first definition without a fee, or 0
RECURSIVE FirstVariable(_, _)
FirstVariable(cats, i) ==
  IF i > Len(cats) THEN 0
  ELSE IF cats[i].fee = None THEN i
  ELSE FirstVariable(cats, i + 1)

\* a mutant: one pass that returns the first definition that either matches the
\* amount or is the catch-all
RECURSIVE CategorizeOnePass(_, _)
CategorizeOnePass(cats, amount) ==
  IF cats = <<>> THEN Uncategorized
  ELSE IF Head(cats).fee = None \/ Head(cats).fee = amount THEN KeyOf(Head(cats))
  ELSE CategorizeOnePass(Tail(cats), amount)

\* categorize_transaction, with self.categories as a parameter
Categorize(cats, amount) ==
  LET f == FirstFixed(cats, amount, 1)
      v == FirstVariable(cats, 1)
  IN IF f # 0 THEN KeyOf(cats[f])
     ELSE IF v # 0 THEN KeyOf(cats[v])
     ELSE Uncategorized

categorize_transaction(amount) == Categorize(categories, amount)

\* ---- the ordered dict self.categorized_data: a sequence of [key, items]
CdHas(cd, key) == \E i \in 1..Len(cd) : cd[i].key = key
CdIndex(cd, key) == CHOOSE i \in 1..Len(cd) : cd[i].key = key
CdGet(cd, key) == cd[CdIndex(cd, key)].items
\* cd[key] = items
CdSet(cd, key, items) ==
  IF CdHas(cd, key) THEN [cd EXCEPT ![CdIndex(cd, key)].items = items]
  ELSE Append(cd, [key |-> key, items |-> items])
CdKeys(cd) == [i \in 1..Len(cd) |-> cd[i].key]
CdKeySet(cd) == {cd[i].key : i \in 1..Len(cd)}

\* for cat in self.categories: self.categorized_data[key(cat)] = []
RECURSIVE BuildIndexFrom(_, _)
BuildIndexFrom(cats, cd) ==
  IF cats = <<>> THEN cd
  ELSE BuildIndexFrom(Tail(cats), CdSet(cd, KeyOf(Head(cats)), <<>>))

BuildIndex(cats) == BuildIndexFrom(cats, <<>>)

\* ---------------------------------------------------------------- extractor
\* sub in s
Find(sub, s) == \E i \in 1..(Len(s) - Len(sub) + 1) : SubSeq(s, i, i + Len(sub) - 1) = sub

IsDigit(c) == \E i \in 1..Len(Digits) : Digits[i] = c
DigitVal(c) == (CHOOSE i \in 1..Len(Digits) : Digits[i] = c) - 1

RECURSIVE StrToNat(_, _)
StrToNat(ds, acc) == IF ds = <<>> THEN acc ELSE StrToNat(Tail(ds), 10 * acc + DigitVal(Head(ds)))

AllDigits(ds) == \A i \in 1..Len(ds) : IsDigit(ds[i])

\* float(s) for the decimal notations sign? digits [. digits] and sign? . digits
\* (no exponent, underscore, inf or nan: the model's inputs use none of their
\* letters), with at most two digits after the point.  ok = FALSE is ValueError.
ParseFloat(s) ==
  LET t      == Strip(s, Whitespace)
      signed == t # <<>> /\ Head(t) \in {"+", "-"}
      body   == IF signed THEN Tail(t) ELSE t
      halves == Split(body, ".")
      whole  == halves[1]
      frac   == IF Len(halves) = 2 THEN halves[2] ELSE <<>>
      ok     == /\ Len(halves) <= 2
                /\ AllDigits(whole) /\ AllDigits(frac)
                /\ Len(whole) + Len(frac) > 0
      frac2  == SubSeq(frac \o <<"0", "0">>, 1, 2)
      mag    == 100 * StrToNat(whole, 0) + StrToNat(frac2, 0)
  IN IF ok THEN [ok |-> TRUE, value |-> IF signed /\ Head(t) = "-" THEN 0 - mag ELSE mag]
     ELSE [ok |-> FALSE, value |-> 0]

\* x.strip().strip('="').strip('"')
Trim(x) == Strip(Strip(Strip(x, Whitespace), {"=", "\""}), {"\""})

\* re.sub(r'\s+', ' ', name)
RECURSIVE CollapseWs(_, _)
CollapseWs(name, in_run) ==
  IF name = <<>> THEN <<>>
  ELSE IF Head(name) \in Whitespace
       THEN (IF in_run THEN <<>> ELSE <<" ">>) \o CollapseWs(Tail(name), TRUE)
       ELSE <<Head(name)>> \o CollapseWs(Tail(name), FALSE)

S_Unknown == <<"U", "n", "k", "n", "o", "w", "n">>

extract_name(description) ==
  LET parts == Split(description, "/")
  IN IF Len(parts) >= 4 THEN CollapseWs(Strip(parts[4], Whitespace), FALSE) ELSE S_Unknown

S_TxnDate == <<"T", "x", "n", " ", "D", "a", "t", "e">>
S_Credit == <<"C", "r", "e", "d", "i", "t">>

\* the index of the first line after the header (0-based start_idx + 1)
RECURSIVE StartIndex(_, _)
StartIndex(lines, i) ==
  IF i > Len(lines) THEN 1
  ELSE IF Find(S_TxnDate, lines[i]) /\ Find(S_Credit, lines[i]) THEN i + 1
  ELSE StartIndex(lines, i + 1)

\* not line.strip() or line.strip().startswith(',')
SkippedLine(line) ==
  LET t == Strip(line, Whitespace) IN t = <<>> \/ Head(t) = ","

\* a mutant: the gate lets seven fields through
SevenFields(parts) == Len(parts) >= 7

\* if len(parts) >= 8
EnoughFields(parts) == Len(parts) >= 8

\* the try block up to the construction of the transaction dict: "skip" for the
\* continue on an empty credit and for the ValueError of float()
ExtractRow(cats, mappings, parts) ==
  LET txn_date    == Trim(parts[1])
      description == Trim(parts[4])
      credit      == Remove(Trim(parts[7]), ",")
      parsed      == ParseFloat(credit)
      short_name  == extract_name(description)
  IN IF credit = <<>> THEN [kind |-> "skip"]
     ELSE IF ~parsed.ok THEN [kind |-> "skip"]
     ELSE [kind |-> "txn",
           txn |-> [date |-> txn_date,
                    name |-> GetFullName(mappings, short_name),
                    short_name |-> short_name,
                    amount |-> parsed.value,
                    category |-> Categorize(cats, parsed.value),
                    description |-> description,
                    reference |-> Trim(parts[3])]]

\* one iteration of the loop over the data lines; st is the ledger being built
\* and st.raised the exception that left the loop, if any
ProcessLine(cats, mappings, st, line) ==
  IF SkippedLine(line) THEN st
  ELSE LET parts == parse_csv_line(line) IN
    IF ~EnoughFields(parts) THEN st
    ELSE LET row == ExtractRow(cats, mappings, parts) IN
      IF row.kind = "skip" THEN st
      ELSE LET oid == Len(st.objs) + 1
               appended == [st EXCEPT !.objs = Append(@, row.txn),
                                      !.transactions = Append(@, oid)]
           IN \* self.categorized_data[category].append(transaction)
              IF CdHas(st.cd, row.txn.category)
              THEN [appended EXCEPT
                      !.cd = CdSet(st.cd, row.txn.category,
                                   Append(CdGet(st.cd, row.txn.category), oid))]
              ELSE [appended EXCEPT !.raised = "KeyError"]

RECURSIVE ProcessLines(_, _, _, _, _)
ProcessLines(cats, mappings, st, lines, i) ==
  IF i > Len(lines) \/ st.raised # "none" THEN st
  ELSE ProcessLines(cats, mappings, ProcessLine(cats, mappings, st, lines[i]), lines, i + 1)

\* the ledger an ingest would merge the new file into, if it kept what it held
MergingIngest(cats, mappings, lines) ==
  ProcessLines(cats, mappings,
               [objs |-> objs, transactions |-> transactions,
                cd |-> categorized_data, raised |-> "none"],
               lines, StartIndex(lines, 1))

\* the fresh parse of process_csv, before the final update_display
FreshIngest(cats, mappings, lines) ==
  ProcessLines(cats, mappings,
               [objs |-> <<>>, transactions |-> <<>>, cd |-> BuildIndex(cats), raised |-> "none"],
               lines, StartIndex(lines, 1))

\* ---------------------------------------------------------------- display
\* str(x) of a float held in hundredths: shortest digits, at least one decimal
FloatRepr(h) ==
  LET mag  == IF h < 0 THEN 0 - h ELSE h
      frac == mag % 100
      dec  == IF frac % 10 = 0 THEN <<Digits[(frac \div 10) + 1]>>
              ELSE <<Digits[(frac \div 10) + 1], Digits[(frac % 10) + 1]>>
  IN (IF h < 0 THEN <<"-">> ELSE <<>>) \o IntToStr(mag \div 100) \o <<".">> \o dec

get_transaction_id(t) ==
  t.date \o <<"_">> \o t.name \o <<"_">> \o FloatRepr(t.amount) \o <<"_">> \o t.reference

\* the check box of a row: the id its toggled signal carries, and its state;
\* update_display has cleared the selection, so setChecked gets False
CheckBox(t) == [tid |-> get_transaction_id(t), checked |-> FALSE]

\* the row loop of update_display: one check box per transaction of every
\* sublist, in key order; get_display_category raises TypeError for the
\* category None, colors[transaction['category']] raises KeyError for a
\* category that is no key, and the rows inserted before it stay
RECURSIVE RenderRows(_, _, _, _)
RenderRows(heap, cd, refs, rows) ==
  IF refs = <<>> THEN [table |-> rows, raised |-> "none"]
  ELSE LET t == heap[Head(refs)] IN
    IF t.category = NoCategory
    THEN [table |-> Append(rows, CheckBox(t)), raised |-> "TypeError"]
    ELSE IF ~CdHas(cd, t.category)
    THEN [table |-> Append(rows, CheckBox(t)), raised |-> "KeyError"]
    ELSE RenderRows(heap, cd, Tail(refs), Append(rows, CheckBox(t)))

AllRefs(cd) == Flatten([i \in 1..Len(cd) |-> cd[i].items])

update_display_rows(heap, cd) == RenderRows(heap, cd, AllRefs(cd), <<>>)

\* ---------------------------------------------------------------- tokenizer inputs
TokAlphabet == {"a", "\"", ",", "=", "\r"}
TokStyles == {"legacy", "plain", "bare"}
TokTerminators == {<<>>, <<"\n">>, <<"\r", "\n">>}

Wrap(field, style) ==
  IF style = "legacy" THEN <<"=", "\"">> \o field \o <<"\"">>
  ELSE IF style = "plain" THEN <<"\"">> \o field \o <<"\"">>
  ELSE field

BuildLine(fields, styles, term) ==
  JoinWith(<<",">>, [i \in 1..Len(fields) |-> Wrap(fields[i], styles[i])]) \o term

TotalChars(fields) == Len(Flatten(fields))

IdleProbe == [fn |-> "none"]

\* a folder without journals: one that cannot be written to, and one that can
ReadOnlyFolder == [writable |-> FALSE, files |-> {}]
EmptyFolder == [writable |-> TRUE, files |-> {}]

\* no CategoryManagerDialog is open
ClosedDialog == [open |-> FALSE, categories |-> <<>>]

\* no body of update_display is in progress; depth is the number of bodies
\* entered and not left, rows the transactions the row loop has yet to show
NoRender == [depth |-> 0, rows |-> <<>>]

\* self.color_cache = {}
EmptyCache == [generated |-> FALSE, colors |-> <<>>]

\* __init__: the timer is created and not started, the search panel is hidden
\* and its box empty, the colour cache is empty, the flag is False
IdleSearch ==
  /\ search_timer = None
  /\ search_input = <<>>
  /\ search_group = FALSE
  /\ color_cache = EmptyCache
  /\ updating_display = FALSE
  /\ render = NoRender

\* the application with nothing configured and nothing loaded
IdleApp ==
  /\ categories = <<>>
  /\ objs = <<>>
  /\ transactions = <<>>
  /\ categorized_data = <<>>
  /\ selected_transactions = {}
  /\ table = <<>>
  /\ raised = "none"
  /\ dialog = ClosedDialog
  /\ current_csv_file = NoFile
  /\ journal = ReadOnlyFolder
  /\ IdleSearch

InitTok ==
  /\ IdleApp
  /\ STUDENT_NAME_MAPPINGS = <<>>
  /\ probe = [fn |-> "parse_csv_line", phase |-> "build", fields |-> <<>>,
              styles |-> <<>>, term |-> <<>>, line |-> <<>>, out |-> <<>>]

\* the statement's writer starts a new field in one of the quoting styles
TokNewField(style) ==
  /\ probe.fn = "parse_csv_line" /\ probe.phase = "build"
  /\ Len(probe.fields) < MaxFields
  /\ probe' = [probe EXCEPT !.fields = Append(@, <<>>), !.styles = Append(@, style)]
  /\ UNCHANGED appVars

\* ... and writes one more character into the last field
TokTypeChar(c) ==
  /\ probe.fn = "parse_csv_line" /\ probe.phase = "build"
  /\ probe.fields # <<>>
  /\ TotalChars(probe.fields) < MaxChars
  /\ probe' = [probe EXCEPT !.fields[Len(probe.fields)] = Append(@, c)]
  /\ UNCHANGED appVars

\* parse_csv_line is called on the line, ended by one of the terminators
TokCall(term) ==
  /\ probe.fn = "parse_csv_line" /\ probe.phase = "build"
  /\ probe.fields # <<>>
  /\ LET line == BuildLine(probe.fields, probe.styles, term)
     IN probe' = [probe EXCEPT !.phase = "called", !.term = term, !.line = line,
                               !.out = parse_csv_line(line)]
  /\ UNCHANGED appVars

NextTok ==
  \/ \E style \in TokStyles : TokNewField(style)
  \/ \E c \in TokAlphabet : TokTypeChar(c)
  \/ \E term \in TokTerminators : TokCall(term)

SpecTok == InitTok /\ [][NextTok]_vars

\* ---------------------------------------------------------------- classification calls
S_Tuition == <<"T", "u", "i", "t", "i", "o", "n">>
S_Donations == <<"D", "o", "n", "a", "t", "i", "o", "n", "s">>

CatNames == {S_Tuition, S_Donations, Uncategorized}
\* None, 0.00, 500.00, 77.00
CatFees == {None, 0, 50000, 7700}
CatLists == UNION {[1..n -> [name : CatNames, fee : CatFees]] : n \in 0..MaxCats}
Amounts == {0, 50000, 7700, 10000}

\* FeeTrackerApp.__init__ with the category list read from the configuration file
AppInit(cats) ==
  /\ categories = cats
  /\ objs = <<>>
  /\ transactions = <<>>
  /\ categorized_data = BuildIndex(cats)
  /\ selected_transactions = {}
  /\ table = <<>>
  /\ raised = "none"
  /\ dialog = ClosedDialog
  /\ current_csv_file = NoFile
  /\ journal = ReadOnlyFolder
  /\ IdleSearch

InitClassify ==
  /\ \E cats \in CatLists : AppInit(cats)
  /\ STUDENT_NAME_MAPPINGS = <<>>
  /\ probe = [fn |-> "categorize_transaction", phase |-> "idle", amount |-> 0,
              out |-> <<>>, cats |-> <<>>, index |-> <<>>]

ClassifyCall(amount) ==
  /\ probe.fn = "categorize_transaction" /\ probe.phase = "idle"
  /\ probe' = [probe EXCEPT !.phase = "called", !.amount = amount,
                            !.out = categorize_transaction(amount),
                            !.cats = categories, !.index = categorized_data]
  /\ UNCHANGED appVars

NextClassify == \E amount \in Amounts : ClassifyCall(amount)

SpecClassify == InitClassify /\ [][NextClassify]_vars

\* ---------------------------------------------------------------- name resolver calls
NameKeys == {<<"A", "B">>, <<"a", "b">>, <<"A", " ", "B">>, <<"a", " ", "b">>}
NameValues == {<<"V">>, <<"W">>}
NameTokens == {<<"A", "B">>, <<"a", "b">>, <<"A", " ", "B">>, <<"a", " ", "b">>, <<"a", " ", " ", "b">>, <<" ", "a", "\t", "b", " ">>, <<"a", "B">>, <<"x", "y">>, <<"x", " ", "y">>, <<>>}
NameTables ==
  {t \in UNION {[1..n -> [key : NameKeys, value : NameValues]] : n \in 0..MaxMappings} :
     \A i, j \in 1..Len(t) : i # j => t[i].key # t[j].key}

InitName ==
  /\ IdleApp
  /\ STUDENT_NAME_MAPPINGS \in NameTables
  /\ probe = [fn |-> "get_full_name", phase |-> "idle", short_name |-> <<>>,
              out |-> <<>>, table |-> <<>>]

NameCall(short_name) ==
  /\ probe.fn = "get_full_name" /\ probe.phase = "idle"
  /\ probe' = [probe EXCEPT !.phase = "called", !.short_name = short_name,
                            !.out = get_full_name(short_name),
                            !.table = STUDENT_NAME_MAPPINGS]
  /\ UNCHANGED appVars

NextName == \E short_name \in NameTokens : NameCall(short_name)

SpecName == InitName /\ [][NextName]_vars

\* ---------------------------------------------------------------- ledger
\* a == b for two transaction references: the same dict, or dicts of equal content
SameTxn(heap, a, b) == a = b \/ heap[a] = heap[b]

\* the position list.remove(x) and "x in list" find: the first element equal to
\* x, or 0
IndexOf(heap, items, oid) ==
  LET hits == {p \in 1..Len(items) : SameTxn(heap, items[p], oid)}
  IN IF hits = {} THEN 0 ELSE Min(hits)

\* seq without its i-th element
RemoveAt(seq, i) == SubSeq(seq, 1, i - 1) \o SubSeq(seq, i + 1, Len(seq))

\* items.remove(x), for an x that is in items
ListRemove(heap, items, oid) == RemoveAt(items, IndexOf(heap, items, oid))

\* the transactions of the flat list whose id is selected, in flat-list order
get_selected_transactions(heap, txns, selected) ==
  SelectSeq(txns, LAMBDA oid : get_transaction_id(heap[oid]) \in selected)

\* ---- EditTransactionDialog
\* int(s): surrounding whitespace and a sign are accepted; ok = FALSE is ValueError
ParseInt(s) ==
  LET t      == Strip(s, Whitespace)
      signed == t # <<>> /\ Head(t) \in {"+", "-"}
      ds     == IF signed THEN Tail(t) ELSE t
  IN IF ds = <<>> \/ ~AllDigits(ds) THEN [ok |-> FALSE, value |-> 0]
     ELSE [ok |-> TRUE,
           value |-> IF signed /\ Head(t) = "-" THEN 0 - StrToNat(ds, 0) ELSE StrToNat(ds, 0)]

IsLeap(y) ==
  LET yy == IF y < 1 THEN y + 1 ELSE y
  IN (yy % 4 = 0 /\ yy % 100 # 0) \/ yy % 400 = 0

DaysIn(y, m) ==
  IF m = 2 THEN (IF IsLeap(y) THEN 29 ELSE 28)
  ELSE IF m \in {4, 6, 9, 11} THEN 30 ELSE 31

\* QDate(y, m, d).isValid()
ValidDate(y, m, d) == y # 0 /\ m \in 1..12 /\ d >= 1 /\ d <= DaysIn(y, m)

DateBefore(a, b) ==
  \/ a.y < b.y
  \/ a.y = b.y /\ a.m < b.m
  \/ a.y = b.y /\ a.m = b.m /\ a.d < b.d

\* the range of a QDateEdit and the date it shows before any setDate
MinimumDate == [y |-> 1752, m |-> 9, d |-> 14]
MaximumDate == [y |-> 9999, m |-> 12, d |-> 31]
DefaultDate == [y |-> 2000, m |-> 1, d |-> 1]

\* date_edit.setDate(QDate(y, m, d)): an invalid date is ignored, a valid one
\* is bound to the range of the widget
SetDate(y, m, d) ==
  LET q == [y |-> y, m |-> m, d |-> d]
  IN IF ~ValidDate(y, m, d) THEN DefaultDate
     ELSE IF DateBefore(q, MinimumDate) THEN MinimumDate
     ELSE IF DateBefore(MaximumDate, q) THEN MaximumDate
     ELSE q

Pad(n, width) ==
  LET ds == IntToStr(n)
  IN [i \in 1..(width - Len(ds)) |-> "0"] \o ds

\* date.toString("dd-MM-yyyy")
FormatDate(q) == Pad(q.d, 2) \o <<"-">> \o Pad(q.m, 2) \o <<"-">> \o Pad(q.y, 4)

\* the date the dialog shows when it opens on a transaction: the stored string
\* without its time part, split on "-" or else on "/", read as day, month,
\* year; today when it does not read
DialogDate(date_str, today) ==
  LET day_part == IF Contains(date_str, " ") THEN Split(date_str, " ")[1] ELSE date_str
      hyphen   == Split(day_part, "-")
      parts    == IF Len(hyphen) # 3 THEN Split(day_part, "/") ELSE hyphen
  IN IF Len(parts) # 3 THEN today
     ELSE LET d == ParseInt(parts[1])
              m == ParseInt(parts[2])
              y == ParseInt(parts[3])
          IN IF d.ok /\ m.ok /\ y.ok
             THEN FormatDate(SetDate(y.value, m.value, d.value))
             ELSE today

\* get_updated_transaction's date: the dialog's date, and the time part of the
\* stored string after it
UpdatedDate(original_date, shown) ==
  IF Contains(original_date, " ")
  THEN shown \o <<" ">> \o JoinWith(<<" ">>, Tail(Split(original_date, " ")))
  ELSE shown

\* amount_spinbox.setValue(amount); value(): two decimals, range 0..999999
SpinValue(h) == IF h < 0 THEN 0 ELSE IF h > 99999900 THEN 99999900 ELSE h

\* what the user can leave in the dialog when it closes; the name and date are
\* left as shown or replaced by one of EditNames, EditDates
EditNames == {}
EditDates == {}
EditAmounts == {50000, 7700}
CurrentDates == {<<"0", "6", "-", "1", "1", "-", "2", "0", "2", "6">>}

\* the dialog was cancelled
Cancelled == [accepted |-> FALSE, name |-> <<>>, date |-> <<>>, amount |-> 0, category |-> <<>>]

\* category_combo: the keys of the index; currentText() is "" without any
EditOutcomes(t, cd) ==
  [accepted : {TRUE},
   name     : {t.name} \cup EditNames,
   date     : {UpdatedDate(t.date, shown) :
                 shown \in {DialogDate(t.date, today) : today \in CurrentDates} \cup EditDates},
   amount   : {SpinValue(t.amount)} \cup EditAmounts,
   category : IF cd = <<>> THEN {<<>>} ELSE CdKeySet(cd)]

\* what the dialog returns when Ok is pressed with nothing touched: the name
\* and amount as the widgets hold them, the date as the date widget formats
\* it, and the current text of the combo box, which is the category of the
\* transaction when that is a key and else the first key
Untouched(t, cd, today) ==
  [accepted |-> TRUE,
   name     |-> t.name,
   date     |-> UpdatedDate(t.date, DialogDate(t.date, today)),
   amount   |-> SpinValue(t.amount),
   category |-> IF CdHas(cd, t.category) THEN t.category
                ELSE IF cd = <<>> THEN <<>> ELSE cd[1].key]

get_updated_transaction(t, out) ==
  [t EXCEPT !.name = out.name, !.date = out.date, !.amount = out.amount,
            !.category = out.category]

\* ---- the handlers of the selection panel; st is the ledger a handler works on:
\* the heap, the flat list, the index, the selection, and the exception that
\* left the handler, if any
S_COPY == <<"_", "C", "O", "P", "Y">>

\* edit_transaction, up to the refresh: the four fields are assigned first,
\* then the reference moves from the old sublist to the new one
edit_transaction(st, oid, out) ==
  LET old  == st.objs[oid].category
      heap == [st.objs EXCEPT ![oid] = get_updated_transaction(@, out)]
      s1   == [st EXCEPT !.objs = heap]
  IN IF old = out.category THEN s1
     ELSE IF ~CdHas(st.cd, old) THEN [s1 EXCEPT !.raised = "KeyError"]
     ELSE IF IndexOf(heap, CdGet(st.cd, old), oid) = 0 THEN [s1 EXCEPT !.raised = "ValueError"]
     ELSE LET removed == CdSet(st.cd, old, ListRemove(heap, CdGet(st.cd, old), oid))
          IN IF ~CdHas(removed, out.category)
             THEN [s1 EXCEPT !.cd = removed, !.raised = "KeyError"]
             ELSE [s1 EXCEPT !.cd = CdSet(removed, out.category,
                                          Append(CdGet(removed, out.category), oid))]

\* one iteration of the loop of bulk_edit_transactions
BulkEditOne(st, oid, category) ==
  LET old == st.objs[oid].category
  IN IF old = category THEN st
     ELSE IF ~CdHas(st.cd, old) THEN [st EXCEPT !.raised = "KeyError"]
     ELSE LET items == CdGet(st.cd, old)
              cd1   == IF IndexOf(st.objs, items, oid) > 0
                       THEN CdSet(st.cd, old, ListRemove(st.objs, items, oid))
                       ELSE st.cd
          IN [st EXCEPT !.cd = CdSet(cd1, category, Append(CdGet(cd1, category), oid)),
                        !.objs[oid].category = category]

RECURSIVE bulk_edit_transactions(_, _, _)
bulk_edit_transactions(st, selected, category) ==
  IF selected = <<>> \/ st.raised # "none" THEN st
  ELSE bulk_edit_transactions(BulkEditOne(st, Head(selected), category), Tail(selected), category)

\* one iteration of the loop of delete_selected_transactions
DeleteOne(st, oid) ==
  LET t  == st.objs[oid]
      s1 == [st EXCEPT !.selected = @ \ {get_transaction_id(t)}]
  IN IF ~CdHas(st.cd, t.category) THEN [s1 EXCEPT !.raised = "KeyError"]
     ELSE LET items == CdGet(st.cd, t.category)
              cd1   == IF IndexOf(st.objs, items, oid) > 0
                       THEN CdSet(st.cd, t.category, ListRemove(st.objs, items, oid))
                       ELSE st.cd
              flat  == IF IndexOf(st.objs, st.transactions, oid) > 0
                       THEN ListRemove(st.objs, st.transactions, oid)
                       ELSE st.transactions
          IN [s1 EXCEPT !.cd = cd1, !.transactions = flat]

RECURSIVE DeleteLoop(_, _)
DeleteLoop(st, selected) ==
  IF selected = <<>> \/ st.raised # "none" THEN st
  ELSE DeleteLoop(DeleteOne(st, Head(selected)), Tail(selected))

\* the copy duplicate_selected_transactions hands to the dialog
DuplicateOf(t) == [t EXCEPT !.reference = @ \o S_COPY]

\* one iteration of the loop of duplicate_selected_transactions; out is what
\* the dialog on the copy returned
DuplicateOne(st, oid, out) ==
  IF ~out.accepted THEN st
  ELSE LET new_transaction == get_updated_transaction(DuplicateOf(st.objs[oid]), out)
           nid == Len(st.objs) + 1
           s1  == [st EXCEPT !.objs = Append(@, new_transaction),
                             !.transactions = Append(@, nid)]
       IN IF CdHas(st.cd, out.category)
          THEN [s1 EXCEPT !.cd = CdSet(st.cd, out.category,
                                       Append(CdGet(st.cd, out.category), nid))]
          ELSE s1

RECURSIVE DuplicateLoop(_, _, _)
DuplicateLoop(st, selected, outs) ==
  IF selected = <<>> THEN st
  ELSE DuplicateLoop(DuplicateOne(st, Head(selected), Head(outs)), Tail(selected), Tail(outs))

\* what the dialogs of one duplicate_selected_transactions can return, one
\* outcome per selected transaction
RECURSIVE DuplicateOutcomes(_, _, _)
DuplicateOutcomes(heap, cd, selected) ==
  IF selected = <<>> THEN {<<>>}
  ELSE {<<out>> \o rest :
          out \in EditOutcomes(DuplicateOf(heap[Head(selected)]), cd) \cup {Cancelled},
          rest \in DuplicateOutcomes(heap, cd, Tail(selected))}

\* ---- heap bookkeeping: a dict that no list refers to any more is gone; the
\* dicts are numbered in the order the flat list and then the index reach them
RECURSIVE Distinct(_, _)
Distinct(seq, seen) ==
  IF seq = <<>> THEN seen
  ELSE Distinct(Tail(seq), IF \E i \in 1..Len(seen) : seen[i] = Head(seq)
                           THEN seen ELSE Append(seen, Head(seq)))

Collect(st) ==
  LET live   == Distinct(st.transactions \o AllRefs(st.cd), <<>>)
      new(o) == CHOOSE i \in 1..Len(live) : live[i] = o
  IN [st EXCEPT !.objs = [i \in 1..Len(live) |-> st.objs[live[i]]],
                !.transactions = [i \in 1..Len(st.transactions) |-> new(st.transactions[i])],
                !.cd = [k \in 1..Len(st.cd) |->
                          [key |-> st.cd[k].key,
                           items |-> [i \in 1..Len(st.cd[k].items) |-> new(st.cd[k].items[i])]]]]

\* ---------------------------------------------------------------- search
\* self.search_delay, in milliseconds
search_delay == 150

\* f"{amount:.2f}"
AmountText(h) ==
  IntToStr(h \div 100) \o <<".", Digits[((h % 100) \div 10) + 1], Digits[(h % 10) + 1]>>

StartsWith(s, prefix) == Len(prefix) <= Len(s) /\ SubSeq(s, 1, Len(prefix)) = prefix

\* _amount_matches: a term with a point must equal the formatted amount; a
\* term that float() accepts must equal the amount or its whole part; any
\* other term is looked for in the formatted amount
AmountMatches(search_term, amount) ==
  LET formatted_amount == AmountText(amount)
      search_num == ParseFloat(search_term)
  IN IF Contains(search_term, ".") THEN formatted_amount = search_term
     ELSE IF search_num.ok
          THEN amount = search_num.value \/ StartsWith(formatted_amount, search_term \o <<".">>)
          ELSE Find(search_term, formatted_amount)

\* the condition of _filter_transactions_fast for the field "All", the one the
\* combo box shows unless the user picks another; the disjuncts are evaluated
\* in order, and .lower() of the category None raises AttributeError
NameMatches(search_term, t) == Find(search_term, Lower(t.name))

Matches(search_term, t) ==
  \/ NameMatches(search_term, t)
  \/ t.category # NoCategory /\ Find(search_term, Lower(t.category))
  \/ t.category # NoCategory /\ Find(search_term, Lower(t.description))
  \/ t.category # NoCategory /\ AmountMatches(search_term, t.amount)

FilterRaises(heap, refs, search_term) ==
  \E i \in 1..Len(refs) :
     heap[refs[i]].category = NoCategory /\ ~NameMatches(search_term, heap[refs[i]])

FilterTransactionsFast(heap, refs, search_term) ==
  SelectSeq(refs, LAMBDA o : Matches(search_term, heap[o]))

\* _generate_color_cache: one colour per key of the index
GenerateColorCache(cd) == [generated |-> TRUE, colors |-> CdKeys(cd)]

\* the row loop of _update_table_efficiently: the check box of a row is
\* checked when its id is selected; the colour comes from the cache
RECURSIVE SearchRows(_, _, _, _, _)
SearchRows(heap, cache, selected, refs, rows) ==
  IF refs = <<>> THEN [table |-> rows, raised |-> "none"]
  ELSE LET t   == heap[Head(refs)]
           box == [tid |-> get_transaction_id(t), checked |-> get_transaction_id(t) \in selected]
       IN IF t.category = NoCategory
          THEN [table |-> Append(rows, box), raised |-> "TypeError"]
          ELSE IF ~\E k \in 1..Len(cache.colors) : cache.colors[k] = t.category
          THEN [table |-> Append(rows, box), raised |-> "KeyError"]
          ELSE SearchRows(heap, cache, selected, Tail(refs), Append(rows, box))

\* perform_search on the ledger st with the text of the search box: what it
\* leaves in the table, the selection, the colour cache, and what it raised
perform_search(st, cache, old_table, text) ==
  LET search_term == Lower(Strip(text, Whitespace))
      all    == update_display_rows(st.objs, st.cd)
      cache1 == IF cache.generated THEN cache ELSE GenerateColorCache(st.cd)
      found  == SearchRows(st.objs, cache1, st.selected,
                           FilterTransactionsFast(st.objs, st.transactions, search_term), <<>>)
  IN IF search_term = <<>>
     THEN [table |-> all.table, selected |-> {}, cache |-> EmptyCache, raised |-> all.raised]
     ELSE IF FilterRaises(st.objs, st.transactions, search_term)
     THEN [table |-> old_table, selected |-> st.selected, cache |-> cache1,
           raised |-> "AttributeError"]
     ELSE [table |-> found.table, selected |-> st.selected, cache |-> cache1,
           raised |-> found.raised]

\* the timer started only when it is not running
StartIfIdle(timer) == IF timer = None THEN search_delay ELSE timer

\* on_search_text_changed: the timer is stopped and started again with the
\* full delay; the value is the time left on the timer
on_search_text_changed(timer) == search_delay

\* ---------------------------------------------------------------- handlers' ends
Ledger == [objs |-> objs, transactions |-> transactions, cd |-> categorized_data,
           selected |-> selected_transactions, raised |-> "none"]

\* the end of a handler whose last statements are the refresh of the table:
\* update_display when no exception has left the handler before, with the
\* search box empty
Refresh(st0) ==
  LET st    == Collect(st0)
      shown == update_display_rows(st.objs, st.cd)
  IN /\ objs' = st.objs
     /\ transactions' = st.transactions
     /\ categorized_data' = st.cd
     /\ IF st.raised # "none"
        THEN /\ raised' = st.raised
             /\ selected_transactions' = st.selected
             /\ UNCHANGED <<table, color_cache>>
        ELSE /\ raised' = shown.raised
             /\ selected_transactions' = {}
             /\ table' = shown.table
             /\ color_cache' = EmptyCache

\* ---------------------------------------------------------------- edit journal
\* json.dump of the flat list: the dicts by value, in list order
Snapshot(heap, refs) == [i \in 1..Len(refs) |-> heap[refs[i]]]

\* auto_save_data: nothing is written while no statement is loaded or the flat
\* list is empty; otherwise the journal of the loaded statement is replaced by
\* the flat list and the category list, and when open() raises the exception is
\* printed and the folder stays as it is
auto_save_data(file, cats, heap, refs, jr) ==
  IF file = NoFile \/ refs = <<>> \/ ~jr.writable THEN jr
  ELSE [jr EXCEPT !.files =
          {e \in @ : e.csv_file # file}
          \cup {[csv_file |-> file, transactions |-> Snapshot(heap, refs), categories |-> cats]}]

\* load_saved_data: the journal whose csv_file is the picked statement
HasSaved(file, jr) == \E e \in jr.files : e.csv_file = file
load_saved_data(file, jr) == CHOOSE e \in jr.files : e.csv_file = file

\* the end of a handler while the search box holds a term: perform_search
\* instead of update_display
RefreshOrSearch(st0) ==
  LET st    == Collect(st0)
      shown == perform_search(st, color_cache, table, search_input)
  IN /\ objs' = st.objs
     /\ transactions' = st.transactions
     /\ categorized_data' = st.cd
     /\ IF st.raised # "none"
        THEN /\ raised' = st.raised
             /\ selected_transactions' = st.selected
             /\ UNCHANGED <<table, color_cache>>
        ELSE /\ raised' = shown.raised
             /\ selected_transactions' = shown.selected
             /\ table' = shown.table
             /\ color_cache' = shown.cache

\* the end of a handler while the search box is empty: update_display, then
\* auto_save_data
RefreshAndSave(st0) ==
  /\ Strip(search_input, Whitespace) = <<>>
  /\ Refresh(st0)
  /\ journal' = IF raised' = "none"
                THEN auto_save_data(current_csv_file, categories, objs', transactions', journal)
                ELSE journal
  /\ UNCHANGED current_csv_file

\* the end of a handler while the search box holds a term: perform_search, then
\* auto_save_data
SearchAndSave(st0) ==
  /\ Strip(search_input, Whitespace) # <<>>
  /\ RefreshOrSearch(st0)
  /\ journal' = IF raised' = "none"
                THEN auto_save_data(current_csv_file, categories, objs', transactions', journal)
                ELSE journal
  /\ UNCHANGED current_csv_file

\* ---------------------------------------------------------------- process_csv
\* upload_file -> process_csv on a file without a journal: the fresh parse and,
\* when the loop ends without an exception, update_display
UploadFile(lines) ==
  LET st    == FreshIngest(categories, STUDENT_NAME_MAPPINGS, lines)
      shown == update_display_rows(st.objs, st.cd)
  IN /\ objs' = st.objs
     /\ transactions' = st.transactions
     /\ categorized_data' = st.cd
     /\ IF st.raised # "none"
        THEN /\ raised' = st.raised
             /\ UNCHANGED <<selected_transactions, table, color_cache>>
        ELSE /\ raised' = shown.raised
             /\ selected_transactions' = {}
             /\ table' = shown.table
             /\ color_cache' = EmptyCache
     /\ current_csv_file' = lines
     /\ UNCHANGED <<categories, STUDENT_NAME_MAPPINGS, searchVars, journal, dialog>>

\* the resume branch of process_csv: the flat list is the journal's list, the
\* index is rebuilt from the category list, and a transaction whose category
\* is no key gets a key of its own
RECURSIVE ResumeLoop(_, _, _)
ResumeLoop(heap, cd, i) ==
  IF i > Len(heap) THEN cd
  ELSE LET category == heap[i].category
       IN ResumeLoop(heap,
                     IF CdHas(cd, category)
                     THEN CdSet(cd, category, Append(CdGet(cd, category), i))
                     ELSE CdSet(cd, category, <<i>>),
                     i + 1)

ResumeIngest(cats, saved) ==
  [objs |-> saved.transactions,
   transactions |-> [i \in 1..Len(saved.transactions) |-> i],
   cd |-> ResumeLoop(saved.transactions, BuildIndex(cats), 1),
   raised |-> "none"]

\* upload_file -> process_csv on a file with a journal, the question answered
\* Yes: the resume branch and update_display
ResumeFile(lines) ==
  LET st    == ResumeIngest(categories, load_saved_data(lines, journal))
      shown == update_display_rows(st.objs, st.cd)
  IN /\ HasSaved(lines, journal)
     /\ objs' = st.objs
     /\ transactions' = st.transactions
     /\ categorized_data' = st.cd
     /\ raised' = shown.raised
     /\ selected_transactions' = {}
     /\ table' = shown.table
     /\ color_cache' = EmptyCache
     /\ current_csv_file' = lines
     /\ UNCHANGED <<categories, STUDENT_NAME_MAPPINGS, searchVars, journal, dialog>>

\* ---- statement lines
\* Txn Date,Value Date,Description,Ref No./Cheque No.,Debit,Credit,Balance
L_Header ==
  <<"T", "x", "n", " ", "D", "a", "t", "e", ",", "V", "a", "l", "u", "e", " ", "D", "a",
     "t", "e", ",", "D", "e", "s", "c", "r", "i", "p", "t", "i", "o", "n", ",", "R", "e",
     "f", " ", "N", "o", ".", "/", "C", "h", "e", "q", "u", "e", " ", "N", "o", ".", ",",
     "D", "e", "b", "i", "t", ",", "C", "r", "e", "d", "i", "t", ",", "B", "a", "l", "a",
     "n", "c", "e", "\n">>
\* the data line of the end-to-end scenario, as readlines() returns it
L_Credit500 ==
  <<"=", "\"", "0", "5", "-", "0", "1", "-", "2", "0", "2", "4", "\"", ",", "=", "\"", "R",
     "E", "F", "1", "\"", ",", "=", "\"", "R", "E", "F", "1", "\"", ",", "\"", "U", "P",
     "I", "/", "C", "R", "/", "1", "2", "3", "/", "J", "O", "H", "N", " ", "D", "O", "E",
     "/", "H", "D", "F", "C", "/", "n", "o", "t", "e", "\"", ",", ",", ",", "=", "\"", "5",
     "0", "0", ".", "0", "0", "\"", ",", "\n">>
\* the same line as the last line of a file without a trailing newline
L_Credit500NoNewline ==
  <<"=", "\"", "0", "5", "-", "0", "1", "-", "2", "0", "2", "4", "\"", ",", "=", "\"", "R",
     "E", "F", "1", "\"", ",", "=", "\"", "R", "E", "F", "1", "\"", ",", "\"", "U", "P",
     "I", "/", "C", "R", "/", "1", "2", "3", "/", "J", "O", "H", "N", " ", "D", "O", "E",
     "/", "H", "D", "F", "C", "/", "n", "o", "t", "e", "\"", ",", ",", ",", "=", "\"", "5",
     "0", "0", ".", "0", "0", "\"", ",">>
L_Credit77 ==
  <<"=", "\"", "0", "6", "-", "0", "1", "-", "2", "0", "2", "4", "\"", ",", "=", "\"", "R",
     "E", "F", "2", "\"", ",", "=", "\"", "R", "E", "F", "2", "\"", ",", "\"", "U", "P",
     "I", "/", "C", "R", "/", "9", "/", "x", "y", "\"", ",", ",", ",", "=", "\"", "7", "7",
     ".", "0", "0", "\"", ",", "\n">>
\* a debit row: the credit field is empty
L_NoCredit ==
  <<"=", "\"", "0", "7", "-", "0", "1", "-", "2", "0", "2", "4", "\"", ",", "=", "\"", "R",
     "E", "F", "3", "\"", ",", "=", "\"", "R", "E", "F", "3", "\"", ",", "\"", "U", "P",
     "I", "/", "D", "R", "/", "7", "/", "X", "Y", "/", "Z", "\"", ",", ",", "=", "\"", "4",
     "0", ".", "0", "0", "\"", ",", "=", "\"", "\"", ",", "\n">>
L_BadCredit ==
  <<"=", "\"", "0", "8", "-", "0", "1", "-", "2", "0", "2", "4", "\"", ",", "=", "\"", "R",
     "E", "F", "4", "\"", ",", "=", "\"", "R", "E", "F", "4", "\"", ",", "\"", "U", "P",
     "I", "/", "C", "R", "/", "8", "/", "X", "Y", "\"", ",", ",", ",", "=", "\"", "1", "2",
     "x", "\"", ",", "\n">>
L_Short == <<"a", ",", "b", "\n">>
L_Commas == <<",", ",", ",", "\n">>

SampleLines == {L_Credit500, L_Credit500NoNewline, L_Credit77, L_NoCredit, L_BadCredit,
                L_Short, L_Commas}
DataRows == UNION {[1..n -> SampleLines] : n \in 0..MaxLines}
IngestFiles == DataRows \cup {<<L_Header>> \o rows : rows \in DataRows}

S_Uncategorised == <<"U", "n", "c", "a", "t", "e", "g", "o", "r", "i", "s", "e", "d">>
S_JOHN_DOE == <<"J", "O", "H", "N", " ", "D", "O", "E">>
S_John_Doe == <<"J", "o", "h", "n", " ", "D", "o", "e">>

\* the default list of load_categories, and lists with and without a catch-all
IngestCatLists ==
  { <<[name |-> S_Uncategorised, fee |-> None]>>,
    <<[name |-> S_Tuition, fee |-> 50000]>>,
    <<[name |-> S_Tuition, fee |-> 50000], [name |-> S_Donations, fee |-> None]>>,
    <<>> }

InitIngest ==
  /\ \E cats \in IngestCatLists : AppInit(cats)
  /\ STUDENT_NAME_MAPPINGS = <<[key |-> S_JOHN_DOE, value |-> S_John_Doe]>>
  /\ probe = [fn |-> "process_csv", phase |-> "idle", lines |-> <<>>]

IngestCall(lines) ==
  /\ probe.fn = "process_csv" /\ probe.phase = "idle"
  /\ UploadFile(lines)
  /\ probe' = [probe EXCEPT !.phase = "called", !.lines = lines]

NextIngest == \E lines \in IngestFiles : IngestCall(lines)

SpecIngest == InitIngest /\ [][NextIngest]_vars

\* ---- a second statement uploaded over a ledger that already holds one
ReingestFiles ==
  {<<L_Header>> \o rows :
     rows \in UNION {[1..n -> {L_Credit500, L_Credit77, L_NoCredit}] : n \in 0..MaxLines}}

InitReingest ==
  /\ \E cats \in IngestCatLists : AppInit(cats)
  /\ STUDENT_NAME_MAPPINGS = <<[key |-> S_JOHN_DOE, value |-> S_John_Doe]>>
  /\ probe = [fn |-> "upload_file", phase |-> "idle", lines |-> <<>>, before |-> 0]

\* upload_file, whatever the ledger holds; before is the size of the flat list
\* when the file is picked
ReingestCall(lines) ==
  /\ probe.fn = "upload_file"
  /\ UploadFile(lines)
  /\ probe' = [probe EXCEPT !.phase = "called", !.lines = lines,
                            !.before = Len(transactions)]

NextReingest == \E lines \in ReingestFiles : ReingestCall(lines)

SpecReingest == InitReingest /\ [][NextReingest]_vars

\* ---------------------------------------------------------------- main window
Selected == get_selected_transactions(objs, transactions, selected_transactions)

\* ---- the actions of the main window (no modal dialog is open)
\* transactions in the flat list, and _COPY suffixes on one reference
MaxTxns == 2
MaxCopies == 1

\* the number of _COPY suffixes a reference ends with
RECURSIVE Copies(_)
Copies(reference) ==
  LET n == Len(reference) - Len(S_COPY)
  IN IF n >= 0 /\ SubSeq(reference, n + 1, Len(reference)) = S_COPY
     THEN 1 + Copies(SubSeq(reference, 1, n))
     ELSE 0

\* upload_file: the user picks a statement; resume is the answer to "Load
\* Saved Edits?", asked only when the statement has a journal
Upload(lines, resume) ==
  /\ ~dialog.open
  /\ IF resume THEN ResumeFile(lines) ELSE UploadFile(lines)
  /\ UNCHANGED probe

\* on_checkbox_toggled, from the check box of row r
ToggleCheckbox(r) ==
  /\ ~dialog.open
  /\ r \in 1..Len(table)
  /\ table' = [table EXCEPT ![r].checked = ~@]
  /\ selected_transactions' = IF table[r].checked
                              THEN selected_transactions \ {table[r].tid}
                              ELSE selected_transactions \cup {table[r].tid}
  /\ raised' = "none"
  /\ UNCHANGED <<categories, objs, transactions, categorized_data, STUDENT_NAME_MAPPINGS,
                 searchVars, color_cache, current_csv_file, journal, dialog, probe>>

\* clear_selection: every check box is unchecked
ClearSelection ==
  /\ ~dialog.open
  /\ selected_transactions # {}
  /\ selected_transactions' = {}
  /\ table' = [r \in 1..Len(table) |-> [table[r] EXCEPT !.checked = FALSE]]
  /\ raised' = "none"
  /\ UNCHANGED <<categories, objs, transactions, categorized_data, STUDENT_NAME_MAPPINGS,
                 searchVars, color_cache, current_csv_file, journal, dialog, probe>>

\* edit_selected_transactions with one transaction selected: edit_transaction,
\* the dialog accepted
EditSelected(out) ==
  /\ ~dialog.open
  /\ selected_transactions # {}
  /\ Len(Selected) = 1
  /\ out \in EditOutcomes(objs[Selected[1]], categorized_data)
  /\ RefreshAndSave(edit_transaction(Ledger, Selected[1], out))
  /\ UNCHANGED <<categories, STUDENT_NAME_MAPPINGS, searchVars, dialog, probe>>

\* edit_selected_transactions with several selected: bulk_edit_transactions,
\* the user picks a key
BulkEditSelected(category) ==
  /\ ~dialog.open
  /\ selected_transactions # {}
  /\ Len(Selected) > 1
  /\ category \in CdKeySet(categorized_data)
  /\ RefreshAndSave(bulk_edit_transactions(Ledger, Selected, category))
  /\ UNCHANGED <<categories, STUDENT_NAME_MAPPINGS, searchVars, dialog, probe>>

\* delete_selected_transactions, the confirmation answered Yes: the loop,
\* clear_selection, the refresh
DeleteSelected ==
  /\ ~dialog.open
  /\ selected_transactions # {}
  /\ Selected # <<>>
  /\ RefreshAndSave(DeleteLoop(Ledger, Selected))
  /\ UNCHANGED <<categories, STUDENT_NAME_MAPPINGS, searchVars, dialog, probe>>

\* edit_selected_transactions with one transaction selected while the search
\* box holds a term
EditSelectedSearching(out) ==
  /\ ~dialog.open
  /\ selected_transactions # {}
  /\ Len(Selected) = 1
  /\ out \in EditOutcomes(objs[Selected[1]], categorized_data)
  /\ SearchAndSave(edit_transaction(Ledger, Selected[1], out))
  /\ UNCHANGED <<categories, STUDENT_NAME_MAPPINGS, searchVars, dialog, probe>>

\* delete_selected_transactions while the search box holds a term
DeleteSelectedSearching ==
  /\ ~dialog.open
  /\ selected_transactions # {}
  /\ Selected # <<>>
  /\ SearchAndSave(DeleteLoop(Ledger, Selected))
  /\ UNCHANGED <<categories, STUDENT_NAME_MAPPINGS, searchVars, dialog, probe>>

\* duplicate_selected_transactions: one dialog per selected transaction
DuplicateSelected(outs) ==
  /\ ~dialog.open
  /\ selected_transactions # {}
  /\ Selected # <<>>
  /\ Len(transactions) + Len(Selected) <= MaxTxns
  /\ \A k \in 1..Len(Selected) : Copies(objs[Selected[k]].reference) < MaxCopies
  /\ outs \in DuplicateOutcomes(objs, categorized_data, Selected)
  /\ IF \E k \in 1..Len(outs) : outs[k].accepted
     THEN RefreshAndSave(DuplicateLoop(Ledger, Selected, outs))
     ELSE /\ raised' = "none"
          /\ UNCHANGED <<objs, transactions, categorized_data, selected_transactions, table,
                         color_cache, current_csv_file, journal>>
  /\ UNCHANGED <<categories, STUDENT_NAME_MAPPINGS, searchVars, dialog, probe>>

\* ---- CategoryManagerDialog and manage_categories

\* rebuild_categorized_data: fresh empty sublists, every category reset
rebuild_categorized_data(cats, st) ==
  [st EXCEPT !.cd = BuildIndex(cats),
             !.objs = [o \in 1..Len(st.objs) |->
                         IF \E i \in 1..Len(st.transactions) : st.transactions[i] = o
                         THEN [st.objs[o] EXCEPT !.category = NoCategory]
                         ELSE st.objs[o]]]

\* the iteration without the assignment to transaction['category']
RecategorizeOneNoField(cats, st, oid) ==
  LET new_category == Categorize(cats, st.objs[oid].amount)
  IN IF CdHas(st.cd, new_category)
     THEN [st EXCEPT !.cd = CdSet(st.cd, new_category, Append(CdGet(st.cd, new_category), oid))]
     ELSE [st EXCEPT !.raised = "KeyError"]

\* one iteration of the loop of recategorize_transactions
RecategorizeOne(cats, st, oid) ==
  LET new_category == Categorize(cats, st.objs[oid].amount)
      s1 == [st EXCEPT !.objs[oid].category = new_category]
  IN IF CdHas(st.cd, new_category)
     THEN [s1 EXCEPT !.cd = CdSet(st.cd, new_category, Append(CdGet(st.cd, new_category), oid))]
     ELSE [s1 EXCEPT !.raised = "KeyError"]

RECURSIVE RecategorizeLoop(_, _, _)
RecategorizeLoop(cats, st, refs) ==
  IF refs = <<>> \/ st.raised # "none" THEN st
  ELSE RecategorizeLoop(cats, RecategorizeOne(cats, st, Head(refs)), Tail(refs))

recategorize_transactions(cats, st) ==
  IF st.transactions = <<>> THEN st
  ELSE RecategorizeLoop(cats,
         [st EXCEPT !.cd = [k \in 1..Len(st.cd) |-> [key |-> st.cd[k].key, items |-> <<>>]]],
         st.transactions)

\* what the user types into the form of the dialog
DialogNames == {S_Tuition}
DialogFees == {0, 50000}

\* the checks with the two fee checks left out: the name check alone
RejectedNameOnly(cats, name, fee, skip) ==
  \/ name = <<>>
  \/ \E i \in 1..Len(cats) : i # skip /\ Lower(cats[i].name) = Lower(name)

\* the checks add_category and update_category make before they change the
\* list; skip is the position of the definition being updated, 0 for an add
Rejected(cats, name, fee, skip) ==
  \/ name = <<>>
  \/ \E i \in 1..Len(cats) : i # skip /\ Lower(cats[i].name) = Lower(name)
  \/ fee = 0 /\ \E i \in 1..Len(cats) : i # skip /\ cats[i].fee \in {None, 0}
  \/ fee > 0 /\ \E i \in 1..Len(cats) : i # skip /\ cats[i].fee = fee

\* the first definition equal to the one of the selected list item
FirstEqual(cats, i) == Min({k \in 1..Len(cats) : cats[k] = cats[i]})

\* the definition the form describes: fee 0 is stored as an absent fee
NewCategory(name, fee) == [name |-> name, fee |-> IF fee > 0 THEN fee ELSE None]

\* add_category without its checks
AddUnchecked(cats, text, fee) == Append(cats, NewCategory(Strip(text, Whitespace), fee))

\* self.categories after add_category
AddResult(cats, text, fee) ==
  LET name == Strip(text, Whitespace)
  IN IF Rejected(cats, name, fee, 0) THEN cats ELSE Append(cats, NewCategory(name, fee))

\* self.categories after update_category with the i-th list item selected
UpdateResult(cats, i, text, fee) ==
  LET name == Strip(text, Whitespace)
      j    == FirstEqual(cats, i)
  IN IF Rejected(cats, name, fee, j) THEN cats
     ELSE [cats EXCEPT ![j] = NewCategory(name, fee)]

\* self.categories after delete_category with the i-th list item selected
DeleteResult(cats, i) == RemoveAt(cats, FirstEqual(cats, i))

OpenCategoryManager ==
  /\ ~dialog.open
  /\ dialog' = [open |-> TRUE, categories |-> categories]
  /\ UNCHANGED <<categories, objs, transactions, categorized_data, selected_transactions,
                 table, color_cache, raised, STUDENT_NAME_MAPPINGS, searchVars,
                 current_csv_file, journal, probe>>

add_category(text, fee) ==
  /\ dialog.open
  /\ Len(dialog.categories) < MaxCats
  /\ dialog' = [dialog EXCEPT !.categories = AddResult(@, text, fee)]
  /\ UNCHANGED <<categories, objs, transactions, categorized_data, selected_transactions,
                 table, color_cache, raised, STUDENT_NAME_MAPPINGS, searchVars,
                 current_csv_file, journal, probe>>

update_category(i, text, fee) ==
  /\ dialog.open
  /\ i \in 1..Len(dialog.categories)
  /\ dialog' = [dialog EXCEPT !.categories = UpdateResult(@, i, text, fee)]
  /\ UNCHANGED <<categories, objs, transactions, categorized_data, selected_transactions,
                 table, color_cache, raised, STUDENT_NAME_MAPPINGS, searchVars,
                 current_csv_file, journal, probe>>

\* delete_category, the confirmation answered Yes
delete_category(i) ==
  /\ dialog.open
  /\ i \in 1..Len(dialog.categories)
  /\ dialog' = [dialog EXCEPT !.categories = DeleteResult(@, i)]
  /\ UNCHANGED <<categories, objs, transactions, categorized_data, selected_transactions,
                 table, color_cache, raised, STUDENT_NAME_MAPPINGS, searchVars,
                 current_csv_file, journal, probe>>

\* the Cancel button
CancelCategories ==
  /\ dialog.open
  /\ dialog' = ClosedDialog
  /\ UNCHANGED <<categories, objs, transactions, categorized_data, selected_transactions,
                 table, color_cache, raised, STUDENT_NAME_MAPPINGS, searchVars,
                 current_csv_file, journal, probe>>

\* the Save button: manage_categories after dialog.exec() returned Accepted;
\* saved is whether save_categories could write the file
SaveCategories(saved) ==
  /\ dialog.open
  /\ dialog' = ClosedDialog
  /\ IF ~saved
     THEN UNCHANGED <<categories, objs, transactions, categorized_data,
                      selected_transactions, table, color_cache, raised>>
     ELSE /\ categories' = dialog.categories
          /\ Refresh(recategorize_transactions(dialog.categories,
                       rebuild_categorized_data(dialog.categories, Ledger)))
  /\ UNCHANGED <<STUDENT_NAME_MAPPINGS, searchVars, current_csv_file, journal>>

manage_categories(saved) ==
  /\ SaveCategories(saved)
  /\ UNCHANGED probe

\* ---- the summary panel
\* the grid of category labels: items_per_row labels in a row, summary_rows rows
items_per_row == 4
summary_rows == 2

\* self.category_labels after init_ui and after rebuild_summary_ui: one label
\* per key, for the categories the grid has room for
category_labels(cats) ==
  CdKeys(BuildIndex(SubSeq(cats, 1, Min({Len(cats), items_per_row * summary_rows}))))

RECURSIVE SumSeq(_)
SumSeq(ns) == IF ns = <<>> THEN 0 ELSE Head(ns) + SumSeq(Tail(ns))

\* sum(t['amount'] for t in ...)
SumAmounts(heap, refs) == SumSeq([i \in 1..Len(refs) |-> heap[refs[i]].amount])

\* update_summary: the count of every label and the Grand Total, both taken
\* from the sublists of the labelled keys
update_summary(cats, heap, cd) ==
  LET labels   == category_labels(cats)
      items(k) == IF CdHas(cd, labels[k]) THEN CdGet(cd, labels[k]) ELSE <<>>
  IN [counts       |-> [k \in 1..Len(labels) |-> Len(items(k))],
      total_amount |-> SumSeq([k \in 1..Len(labels) |-> SumAmounts(heap, items(k))])]

\* ---- the search panel
\* the user changes the text of the search box: textChanged ->
\* on_search_text_changed
SearchTextEdited(text) ==
  /\ ~dialog.open
  /\ search_group
  /\ text # search_input
  /\ search_input' = text
  /\ search_timer' = on_search_text_changed(search_timer)
  /\ UNCHANGED <<categories, objs, transactions, categorized_data, selected_transactions,
                 table, color_cache, raised, STUDENT_NAME_MAPPINGS, dialog, current_csv_file,
                 journal, search_group, updating_display, render>>

\* d milliseconds pass on the running timer
TimePasses(d) ==
  /\ search_timer # None
  /\ d <= search_timer
  /\ search_timer' = search_timer - d
  /\ UNCHANGED <<categories, objs, transactions, categorized_data, selected_transactions,
                 table, color_cache, raised, STUDENT_NAME_MAPPINGS, dialog, current_csv_file,
                 journal, search_input, search_group, updating_display, render>>

\* the single-shot timer expires: timeout -> perform_search
SearchTimeout ==
  LET shown == perform_search(Ledger, color_cache, table, search_input)
  IN /\ search_timer = 0
     /\ search_timer' = None
     /\ table' = shown.table
     /\ selected_transactions' = shown.selected
     /\ color_cache' = shown.cache
     /\ raised' = shown.raised
     /\ UNCHANGED <<categories, objs, transactions, categorized_data, STUDENT_NAME_MAPPINGS,
                    dialog, current_csv_file, journal, search_input, search_group,
                    updating_display, render>>

\* the body of clear_search: the timer is stopped, the box is cleared, which
\* emits textChanged when it held any text, and update_display runs when the
\* text held a term
ClearSearchBody ==
  LET had_search_term == Strip(search_input, Whitespace) # <<>>
      shown == update_display_rows(objs, categorized_data)
  IN /\ search_timer' = IF search_input # <<>> THEN on_search_text_changed(None) ELSE None
     /\ search_input' = <<>>
     /\ IF had_search_term
        THEN /\ table' = shown.table
             /\ selected_transactions' = {}
             /\ color_cache' = EmptyCache
             /\ raised' = shown.raised
        ELSE /\ raised' = "none"
             /\ UNCHANGED <<table, selected_transactions, color_cache>>
     /\ UNCHANGED <<categories, objs, transactions, categorized_data, STUDENT_NAME_MAPPINGS,
                    dialog, current_csv_file, journal, updating_display, render>>

\* the Clear button of the search panel
clear_search ==
  /\ ~dialog.open
  /\ search_group
  /\ ClearSearchBody
  /\ UNCHANGED search_group

\* the Show Search / Hide Search button
toggle_search ==
  /\ ~dialog.open
  /\ IF search_group
     THEN /\ search_group' = FALSE
          /\ ClearSearchBody
     ELSE /\ search_group' = TRUE
          /\ raised' = "none"
          /\ UNCHANGED <<categories, objs, transactions, categorized_data,
                         selected_transactions, table, color_cache, STUDENT_NAME_MAPPINGS,
                         dialog, current_csv_file, journal, search_timer, search_input,
                         updating_display, render>>

\* ---- update_display, statement by statement
\* the flag after the body has ended with the exception exc ("none" when it
\* ended normally), had the assignment not been in a finally clause
FlagWithoutFinally(exc) == exc # "none"

\* finally: self._updating_display = False
FlagAfterBody(exc) == FALSE

\* the body has ended with exc
LeaveBody(exc) ==
  /\ render' = [depth |-> render.depth - 1, rows |-> <<>>]
  /\ updating_display' = FlagAfterBody(exc)
  /\ raised' = exc

\* a call of update_display up to the row loop: it returns at once while the
\* flag is set; otherwise it sets the flag, clears the colour cache, the
\* selection and the table
UpdateDisplayCall ==
  IF updating_display
  THEN UNCHANGED <<table, color_cache, selected_transactions, updating_display, render, raised>>
  ELSE /\ updating_display' = TRUE
       /\ color_cache' = EmptyCache
       /\ selected_transactions' = {}
       /\ table' = <<>>
       /\ render' = [depth |-> render.depth + 1, rows |-> AllRefs(categorized_data)]
       /\ UNCHANGED raised

\* one iteration of the row loop
RenderRow ==
  /\ render.depth > 0
  /\ render.rows # <<>>
  /\ LET t   == objs[Head(render.rows)]
         exc == IF t.category = NoCategory THEN "TypeError"
                ELSE IF ~CdHas(categorized_data, t.category) THEN "KeyError"
                ELSE "none"
     IN /\ table' = Append(table, CheckBox(t))
        /\ IF exc = "none"
           THEN /\ render' = [render EXCEPT !.rows = Tail(@)]
                /\ UNCHANGED <<updating_display, raised>>
           ELSE LeaveBody(exc)
  /\ UNCHANGED <<categories, objs, transactions, categorized_data, selected_transactions,
                 color_cache, STUDENT_NAME_MAPPINGS, dialog, current_csv_file, journal,
                 search_timer, search_input, search_group>>

\* the end of the body: update_summary, update_selection_ui, the finally clause
RenderEnd ==
  /\ render.depth > 0
  /\ render.rows = <<>>
  /\ LeaveBody("none")
  /\ UNCHANGED <<categories, objs, transactions, categorized_data, selected_transactions,
                 table, color_cache, STUDENT_NAME_MAPPINGS, dialog, current_csv_file, journal,
                 search_timer, search_input, search_group>>

\* upload_file -> process_csv up to the row loop of its update_display
UploadAndRender(lines, resume) ==
  LET st == IF resume THEN ResumeIngest(categories, load_saved_data(lines, journal))
            ELSE FreshIngest(categories, STUDENT_NAME_MAPPINGS, lines)
  IN /\ ~dialog.open
     /\ render.depth = 0
     /\ resume => HasSaved(lines, journal)
     /\ objs' = st.objs
     /\ transactions' = st.transactions
     /\ categorized_data' = st.cd
     /\ current_csv_file' = lines
     /\ IF st.raised # "none"
        THEN /\ raised' = st.raised
             /\ UNCHANGED <<table, color_cache, selected_transactions, updating_display, render>>
        ELSE /\ updating_display' = TRUE
             /\ color_cache' = EmptyCache
             /\ selected_transactions' = {}
             /\ table' = <<>>
             /\ render' = [depth |-> render.depth + 1, rows |-> AllRefs(st.cd)]
             /\ UNCHANGED raised
     /\ UNCHANGED <<categories, STUDENT_NAME_MAPPINGS, dialog, journal,
                    search_timer, search_input, search_group>>

\* update_display called while a body is in progress
NestedUpdateDisplay ==
  /\ render.depth > 0
  /\ UpdateDisplayCall
  /\ UNCHANGED <<categories, objs, transactions, categorized_data, STUDENT_NAME_MAPPINGS,
                 dialog, current_csv_file, journal, search_timer, search_input, search_group>>

\* ---- the application
L_Credit77SameRef ==
  <<"=", "\"", "0", "5", "-", "0", "1", "-", "2", "0", "2", "4", "\"", ",", "=", "\"", "R",
     "E", "F", "1", "\"", ",", "=", "\"", "R", "E", "F", "1", "\"", ",", "\"", "U", "P",
     "I", "/", "C", "R", "/", "1", "2", "3", "/", "J", "O", "H", "N", " ", "D", "O", "E",
     "/", "H", "D", "F", "C", "/", "n", "o", "t", "e", "\"", ",", ",", ",", "=", "\"", "7",
     "7", ".", "0", "0", "\"", ",", "\n">>

LedgerFiles == {<<L_Header, L_Credit500>>, <<L_Header, L_Credit500, L_Credit77SameRef>>}

\* fee_categories.json at start-up: absent (the default list), or a fixed and a
\* variable category
LedgerCatLists ==
  { <<[name |-> S_Uncategorised, fee |-> None]>>,
    <<[name |-> S_Tuition, fee |-> 50000], [name |-> S_Donations, fee |-> None]>> }

Init ==
  /\ \E cats \in LedgerCatLists : AppInit(cats)
  /\ STUDENT_NAME_MAPPINGS = <<[key |-> S_JOHN_DOE, value |-> S_John_Doe]>>
  /\ probe = IdleProbe

Next ==
  \/ \E lines \in LedgerFiles, resume \in BOOLEAN : Upload(lines, resume)
  \/ \E r \in 1..MaxTxns : ToggleCheckbox(r)
  \/ ClearSelection
  \/ \E out \in UNION {EditOutcomes(objs[o], categorized_data) : o \in 1..Len(objs)} :
       EditSelected(out)
  \/ \E category \in CdKeySet(categorized_data) : BulkEditSelected(category)
  \/ DeleteSelected
  \/ \E outs \in DuplicateOutcomes(objs, categorized_data, Selected) : DuplicateSelected(outs)
  \/ OpenCategoryManager
  \/ \E text \in DialogNames, fee \in DialogFees : add_category(text, fee)
  \/ \E i \in 1..MaxCats, text \in DialogNames, fee \in DialogFees : update_category(i, text, fee)
  \/ \E i \in 1..MaxCats : delete_category(i)
  \/ CancelCategories
  \/ \E saved \in BOOLEAN : manage_categories(saved)

Spec == Init /\ [][Next]_vars

\* ---- the application with its statements in a folder it can write to: the
\* journal is written by the handlers and offered again by the next upload
JournalFiles == {<<L_Header, L_Credit500>>}
JournalCatLists ==
  {<<[name |-> S_Tuition, fee |-> 50000], [name |-> S_Donations, fee |-> None]>>}

InitJournal ==
  /\ \E cats \in JournalCatLists : categories = cats /\ categorized_data = BuildIndex(cats)
  /\ objs = <<>>
  /\ transactions = <<>>
  /\ selected_transactions = {}
  /\ table = <<>>
  /\ raised = "none"
  /\ dialog = ClosedDialog
  /\ current_csv_file = NoFile
  /\ journal = EmptyFolder
  /\ IdleSearch
  /\ STUDENT_NAME_MAPPINGS = <<>>
  /\ probe = IdleProbe

\* the user of the edit dialog changes the category at most
CategoryOnly(t, out) ==
  out.accepted => out.name = t.name /\ out.amount = SpinValue(t.amount)

NextJournal ==
  \/ \E lines \in JournalFiles, resume \in BOOLEAN : Upload(lines, resume)
  \/ \E r \in 1..MaxTxns : ToggleCheckbox(r)
  \/ \E o \in 1..Len(objs) :
       \E out \in {x \in EditOutcomes(objs[o], categorized_data) : CategoryOnly(objs[o], x)} :
         EditSelected(out)
  \/ \E category \in CdKeySet(categorized_data) : BulkEditSelected(category)
  \/ DeleteSelected
  \/ \E outs \in {x \in DuplicateOutcomes(objs, categorized_data, Selected) :
                    \A k \in 1..Len(x) : CategoryOnly(DuplicateOf(objs[Selected[k]]), x[k])} :
       DuplicateSelected(outs)
  \/ OpenCategoryManager
  \/ \E i \in 1..MaxCats : delete_category(i)
  \/ \E saved \in BOOLEAN : manage_categories(saved)

SpecJournal == InitJournal /\ [][NextJournal]_vars

\* ---- the selection panel on a statement of three credits of one payer
L_Credit88SameRef ==
  LET n == Len(L_Credit77SameRef)
  IN [L_Credit77SameRef EXCEPT ![n - 7] = "8", ![n - 6] = "8"]

\* 77.00, the one amount typed into the edit dialog
PanelAmounts == {7700}

\* the credit of 500.00 dated 05/01/2024
L_Credit500Slash == [L_Credit500 EXCEPT ![5] = "/", ![8] = "/"]

PanelFiles == {<<L_Header, L_Credit500, L_Credit77SameRef, L_Credit88SameRef>>,
               <<L_Header, L_Credit500Slash>>}

InitPanel ==
  /\ AppInit(<<[name |-> S_Tuition, fee |-> 50000], [name |-> S_Donations, fee |-> None]>>)
  /\ STUDENT_NAME_MAPPINGS = <<>>
  /\ probe = IdleProbe

\* the statement is uploaded once
NextPanel ==
  \/ transactions = <<>> /\ \E lines \in PanelFiles : Upload(lines, FALSE)
  \/ \E r \in 1..Len(table) : ToggleCheckbox(r)
  \/ \E o \in 1..Len(objs) :
       \E out \in {x \in EditOutcomes(objs[o], categorized_data) :
                     x.amount \in {objs[o].amount} \cup PanelAmounts} :
         EditSelected(out)
  \/ \E category \in CdKeySet(categorized_data) : BulkEditSelected(category)
  \/ \E outs \in DuplicateOutcomes(objs, categorized_data, Selected) : DuplicateSelected(outs)

SpecPanel == InitPanel /\ [][NextPanel]_vars

\* ---- a category edit saved over a ledger the user has edited: the
\* behaviours end with the re-classification
ReclassifyFiles == {<<L_Header, L_Credit500, L_Credit77SameRef>>}

InitReclassify ==
  /\ AppInit(<<[name |-> S_Tuition, fee |-> 50000], [name |-> S_Donations, fee |-> None]>>)
  /\ STUDENT_NAME_MAPPINGS = <<>>
  /\ probe = IdleProbe

\* a transaction has a category that categorize_transaction would not give it
Overridden ==
  \E i \in 1..Len(transactions) :
    objs[transactions[i]].category # categorize_transaction(objs[transactions[i]].amount)

\* Save in the category manager, recorded; completed is whether
\* recategorize_transactions returned
ReclassifyCall ==
  /\ SaveCategories(TRUE)
  /\ probe' = [fn |-> "recategorize_transactions", overridden |-> Overridden,
               before |-> Len(transactions),
               completed |->
                 recategorize_transactions(dialog.categories,
                   rebuild_categorized_data(dialog.categories, Ledger)).raised = "none"]

NextReclassify ==
  \/ probe = IdleProbe /\ transactions = <<>>
       /\ \E lines \in ReclassifyFiles : Upload(lines, FALSE)
  \/ probe = IdleProbe /\ \E r \in 1..Len(table) : ToggleCheckbox(r)
  \/ probe = IdleProbe
       /\ \E o \in 1..Len(objs) :
            \E out \in EditOutcomes(objs[o], categorized_data) : EditSelected(out)
  \/ probe = IdleProbe
       /\ \E category \in CdKeySet(categorized_data) : BulkEditSelected(category)
  \/ probe = IdleProbe /\ OpenCategoryManager
  \/ probe = IdleProbe
       /\ \E text \in DialogNames, fee \in DialogFees : add_category(text, fee)
  \/ probe = IdleProbe
       /\ \E i \in 1..MaxCats, text \in DialogNames, fee \in DialogFees :
            update_category(i, text, fee)
  \/ probe = IdleProbe /\ \E i \in 1..MaxCats : delete_category(i)
  \/ probe = IdleProbe /\ ReclassifyCall

SpecReclassify == InitReclassify /\ [][NextReclassify]_vars

\* ---- the application with its search panel in use: one statement of two
\* rows, the search box edited, the timer running and expiring, the panel
\* cleared and closed, rows selected and edited, duplicated and deleted.
\* probe records the burst of text changes since the timer was last idle:
\* the number of changes, the time since the last one, the runs of
\* perform_search by the timer, how long after the last change it ran, and
\* whether the panel was cleared or closed after the user's last change
SearchFiles == {<<L_Header, L_Credit500, L_Credit77SameRef>>}
SearchTexts == {<<>>, <<" ">>, <<"7", "7">>, <<"j">>}
TickSteps == {50, 100}
MaxBurst == 3

InitSearch ==
  /\ AppInit(<<[name |-> S_Tuition, fee |-> 50000], [name |-> S_Donations, fee |-> None]>>)
  /\ STUDENT_NAME_MAPPINGS = <<>>
  /\ probe = [fn |-> "search", changes |-> 0, elapsed |-> 0, runs |-> 0, ran_after |-> 0,
              closed |-> FALSE, stale_runs |-> 0]

\* a text change, by the user or by clear(): it opens a burst or joins the one
\* in progress
Changed(p) ==
  IF search_timer = None
  THEN [p EXCEPT !.changes = 1, !.elapsed = 0, !.runs = 0, !.ran_after = 0]
  ELSE [p EXCEPT !.changes = @ + 1, !.elapsed = 0]

SearchType(text) ==
  /\ search_timer # None => probe.changes < MaxBurst
  /\ SearchTextEdited(text)
  /\ probe' = [Changed(probe) EXCEPT !.closed = FALSE, !.stale_runs = 0]

SearchTick(d) ==
  /\ TimePasses(d)
  /\ probe' = [probe EXCEPT !.elapsed = @ + d]

SearchRun ==
  /\ SearchTimeout
  /\ probe' = [probe EXCEPT !.runs = @ + 1, !.ran_after = probe.elapsed,
                            !.stale_runs = IF probe.closed THEN 1 ELSE @]

SearchClosed(p) ==
  [(IF search_input # <<>> THEN Changed(p) ELSE p)
     EXCEPT !.closed = TRUE]

SearchClear ==
  /\ clear_search
  /\ probe' = SearchClosed(probe)

SearchToggle ==
  /\ toggle_search
  /\ probe' = IF search_group THEN SearchClosed(probe) ELSE probe

NextSearch ==
  \/ transactions = <<>> /\ \E lines \in SearchFiles : Upload(lines, FALSE)
  \/ \E text \in SearchTexts : SearchType(text)
  \/ \E d \in TickSteps : SearchTick(d)
  \/ SearchRun
  \/ SearchClear
  \/ SearchToggle
  \/ \E r \in 1..Len(table) : ToggleCheckbox(r)
  \/ /\ selected_transactions # {}
     /\ Len(Selected) = 1
     /\ \E today \in CurrentDates, amount \in PanelAmounts :
          EditSelected([Untouched(objs[Selected[1]], categorized_data, today)
                          EXCEPT !.amount = amount])
  \/ /\ selected_transactions # {}
     /\ Len(Selected) = 1
     /\ \E today \in CurrentDates, amount \in PanelAmounts :
          EditSelectedSearching([Untouched(objs[Selected[1]], categorized_data, today)
                                   EXCEPT !.amount = amount])
  \/ DeleteSelected
  \/ DeleteSelectedSearching

SpecSearch == InitSearch /\ [][NextSearch]_vars

\* the debounce alone: the panel stays open once shown, the user types, time
\* passes, the timer expires.  Qt's event loop delivers every timer event, so
\* time passes on a running timer and an expired timer calls its slot
NextDebounce ==
  \/ transactions = <<>> /\ \E lines \in SearchFiles : Upload(lines, FALSE)
  \/ ~search_group /\ SearchToggle
  \/ \E text \in SearchTexts : SearchType(text)
  \/ \E d \in TickSteps : SearchTick(d)
  \/ SearchRun

SpecDebounce ==
  /\ InitSearch
  /\ [][NextDebounce]_vars
  /\ WF_vars(\E d \in TickSteps : SearchTick(d))
  /\ WF_vars(SearchRun)

\* ---- update_display step by step: a statement of two rows in a folder that
\* can be written to, uploaded and resumed with the row loop of update_display
\* taken one row at a time; the other handlers run between two renders.
\* probe records what update_display as a whole shows for the render in
\* progress and whether a call made during it has returned at its guard
RenderFiles == {<<L_Header, L_Credit500, L_Credit77SameRef>>}

InitRender ==
  /\ InitJournal
  /\ categories = <<[name |-> S_Tuition, fee |-> 50000], [name |-> S_Donations, fee |-> None]>>

RenderUpload(lines, resume) ==
  /\ UploadAndRender(lines, resume)
  /\ probe' = [fn |-> "update_display", rejected |-> FALSE,
               expected |-> update_display_rows(objs', categorized_data')]

RenderNested ==
  /\ probe.fn = "update_display"
  /\ NestedUpdateDisplay
  /\ probe' = [probe EXCEPT !.rejected = TRUE]

NextRender ==
  \/ \E lines \in RenderFiles, resume \in BOOLEAN : RenderUpload(lines, resume)
  \/ RenderRow /\ UNCHANGED probe
  \/ RenderEnd /\ UNCHANGED probe
  \/ RenderNested
  \/ render.depth = 0 /\ \E r \in 1..Len(table) : ToggleCheckbox(r)
  \/ /\ render.depth = 0
     /\ selected_transactions # {}
     /\ Len(Selected) = 1
     /\ \E today \in CurrentDates :
          EditSelected(Untouched(objs[Selected[1]], categorized_data, today))
  \/ render.depth = 0 /\ OpenCategoryManager
  \/ render.depth = 0 /\ \E i \in 1..Len(dialog.categories) : delete_category(i)
  \/ render.depth = 0 /\ manage_categories(TRUE)

SpecRender == InitRender /\ [][NextRender]_vars

\* ---- statements with rows the extractor skips or takes as they are: a
\* credit below zero, a row whose first field is empty, a blank line, a line
\* that is a comma
L_CreditNegative ==
  [L_Credit500 EXCEPT ![Len(L_Credit500) - 8] = "-", ![Len(L_Credit500) - 7] = "5"]
L_LeadingComma ==
  SubSeq(L_Credit500, Min({i \in 1..Len(L_Credit500) : L_Credit500[i] = ","}),
         Len(L_Credit500))
L_Blank == <<" ", "\n">>
L_Comma == <<",", "\n">>

ExtractLines == {L_Credit500, L_Credit77, L_NoCredit, L_CreditNegative, L_LeadingComma,
                 L_Blank, L_Comma}
ExtractCatLists ==
  { <<[name |-> S_Uncategorised, fee |-> None]>>,
    <<[name |-> S_Tuition, fee |-> 50000], [name |-> S_Donations, fee |-> None]>> }
ExtractFiles ==
  {<<L_Header>> \o rows : rows \in UNION {[1..n -> ExtractLines] : n \in 0..MaxLines}}

InitExtract ==
  /\ \E cats \in ExtractCatLists : AppInit(cats)
  /\ STUDENT_NAME_MAPPINGS = <<>>
  /\ probe = [fn |-> "process_csv", phase |-> "idle", lines |-> <<>>]

NextExtract == \E lines \in ExtractFiles : IngestCall(lines)

SpecExtract == InitExtract /\ [][NextExtract]_vars

\* ---- the category manager on its own: requests typed into its form
S_tuition == <<"t", "u", "i", "t", "i", "o", "n">>
S_TuitionKey == S_Tuition \o <<" ", "(", "Rs", "5", "0", "0", ")">>

DialogTexts == {S_Tuition, S_tuition, S_Donations, S_TuitionKey, <<" ">>}
DialogFormFees == {0, 50000, 7700}

\* fee_categories.json when the dialog opens
DialogStartLists == LedgerCatLists \cup {<<>>, <<[name |-> S_Donations, fee |-> 0]>>}

InitDialog ==
  /\ \E cats \in DialogStartLists : AppInit(cats)
  /\ STUDENT_NAME_MAPPINGS = <<>>
  /\ probe = [fn |-> "CategoryManagerDialog", op |-> "none", i |-> 0, text |-> <<>>,
              fee |-> 0, before |-> <<>>]

\* a button of the open dialog; after is self.categories when the handler returns
DialogRequest(op, i, text, fee, after) ==
  /\ probe.fn = "CategoryManagerDialog"
  /\ dialog.open
  /\ dialog' = [dialog EXCEPT !.categories = after]
  /\ probe' = [probe EXCEPT !.op = op, !.i = i, !.text = text, !.fee = fee,
                            !.before = dialog.categories]
  /\ UNCHANGED <<categories, objs, transactions, categorized_data, selected_transactions,
                 table, color_cache, raised, STUDENT_NAME_MAPPINGS, searchVars,
                 current_csv_file, journal>>

DialogAdd(text, fee) ==
  /\ Len(dialog.categories) < MaxCats
  /\ DialogRequest("add", 0, text, fee, AddResult(dialog.categories, text, fee))

DialogUpdate(i, text, fee) ==
  /\ i \in 1..Len(dialog.categories)
  /\ DialogRequest("update", i, text, fee, UpdateResult(dialog.categories, i, text, fee))

DialogDelete(i) ==
  /\ i \in 1..Len(dialog.categories)
  /\ DialogRequest("delete", i, <<>>, 0, DeleteResult(dialog.categories, i))

NextDialog ==
  \/ OpenCategoryManager
  \/ \E text \in DialogTexts, fee \in DialogFormFees : DialogAdd(text, fee)
  \/ \E i \in 1..MaxCats, text \in DialogTexts, fee \in DialogFormFees : DialogUpdate(i, text, fee)
  \/ \E i \in 1..MaxCats : DialogDelete(i)

SpecDialog == InitDialog /\ [][NextDialog]_vars

\* ================================================================ claims

TokCalled == probe.fn = "parse_csv_line" /\ probe.phase = "called"

\* the line is N >= 1 fields, each wrapped as ="field" or "field", joined by
\* commas, with no line terminator after it
TokWrappedLine ==
  /\ TokCalled
  /\ probe.term = <<>>
  /\ \A i \in 1..Len(probe.styles) : probe.styles[i] \in {"legacy", "plain"}

\* C7 (as stated): tokenizing a line of wrapped fields, none of which holds a
\* line feed, gives back exactly the original fields in order.
TokRoundTrip == TokWrappedLine => probe.out = probe.fields

\* a field the quoting can carry: wrapped as ="..." it has no quote directly
\* followed by a comma or a carriage return; wrapped as "..." it has no quote
\* and does not end with an equals sign
Carried(field, style) ==
  IF style = "legacy"
  THEN \A p \in 1..Len(field) :
         field[p] = "\"" => (p < Len(field) => field[p+1] \notin {",", "\r", "\n"})
  ELSE /\ ~Contains(field, "\"")
       /\ (field # <<>> => field[Len(field)] # "=")

\* C7 (amended): the round trip holds when every field is one the quoting can
\* carry (see Carried).
TokRoundTripCarried ==
  (TokWrappedLine /\ \A i \in 1..Len(probe.fields) : Carried(probe.fields[i], probe.styles[i]))
    => probe.out = probe.fields

\* C7 witness: two fields, one in each quoting, the ="..." one holding a quote
\* and the "..." one holding a comma, tokenized back to themselves
TokRoundTripWitness ==
  /\ TokWrappedLine
  /\ probe.styles = <<"legacy", "plain">>
  /\ probe.fields = <<(<<"\"">>), (<<",">>)>>
  /\ probe.out = probe.fields

\* C8 (as stated): no field produced by parse_csv_line holds a line feed or a
\* carriage return, also for lines that end with a line terminator.
TokNoTerminatorInField ==
  TokCalled => \A i \in 1..Len(probe.out) :
                 ~Contains(probe.out[i], "\n") /\ ~Contains(probe.out[i], "\r")

\* ---- C3, C4: categorize_transaction
ClassifyCalled == probe.fn = "categorize_transaction" /\ probe.phase = "called"

FixedMatches(cats, amount) == {i \in 1..Len(cats) : cats[i].fee # None /\ cats[i].fee = amount}
Variables(cats) == {i \in 1..Len(cats) : cats[i].fee = None}

\* C3: categorize_transaction returns the key of the first fixed-fee definition
\* equal to the amount; failing that, the key of the first definition without a
\* fee; failing that, the sentinel.  A fixed-fee match wins over a catch-all
\* placed before it, and the call changes neither the category list nor the
\* ledger.
ClassifyFirstMatch ==
  ClassifyCalled =>
    LET cats == probe.cats
        fixed == FixedMatches(cats, probe.amount)
        variable == Variables(cats)
    IN /\ fixed # {} => probe.out = KeyOf(cats[Min(fixed)])
       /\ (fixed = {} /\ variable # {}) => probe.out = KeyOf(cats[Min(variable)])
       /\ (fixed = {} /\ variable = {}) => probe.out = Uncategorized
       /\ categories = probe.cats
       /\ categorized_data = probe.index
       /\ transactions = <<>>

\* C3 witness: the catch-all comes first in the list, a fixed-fee definition
\* after it equals the amount, and the fixed-fee key is returned
ClassifyFirstMatchWitness ==
  /\ ClassifyCalled
  /\ probe.cats = <<[name |-> S_Donations, fee |-> None], [name |-> S_Tuition, fee |-> 50000]>>
  /\ probe.amount = 50000
  /\ probe.out = S_Tuition \o <<" ", "(", "Rs", "5", "0", "0", ")">>

\* C4: when no fixed-fee definition equals the amount and no definition lacks a
\* fee, the sentinel is returned and it is not a key of the index built from
\* the category list.
SentinelNotInIndex ==
  (ClassifyCalled /\ FixedMatches(probe.cats, probe.amount) = {} /\ Variables(probe.cats) = {})
    => /\ probe.out = Uncategorized
       /\ Uncategorized \notin CdKeySet(BuildIndex(probe.cats))
       /\ Uncategorized \notin CdKeySet(probe.index)

\* C4 witness: a fixed-fee category that is itself named "Uncategorized", and an
\* amount that matches nothing
SentinelNotInIndexWitness ==
  /\ ClassifyCalled
  /\ probe.cats = <<[name |-> Uncategorized, fee |-> 50000]>>
  /\ probe.amount = 7700
  /\ probe.out = Uncategorized

\* ---- C10: get_full_name
NameCalled == probe.fn = "get_full_name" /\ probe.phase = "called"

Hits(mappings, k, name) ==
  {i \in 1..Len(mappings) : StrategyForm(k, mappings[i].key) = StrategyForm(k, name)}

\* n is s with its white-space runs replaced by single spaces (and none at the ends)
IsNormalized(s, n) ==
  /\ \A i \in 1..Len(n) : n[i] \in Whitespace => n[i] = " "
  /\ \A i \in 1..(Len(n) - 1) : ~(n[i] = " " /\ n[i+1] = " ")
  /\ n # <<>> => (n[1] # " " /\ n[Len(n)] # " ")
  /\ Split(n, " ") = (IF SplitWs(s, <<>>, <<>>) = <<>> THEN << <<>> >> ELSE SplitWs(s, <<>>, <<>>))

\* C10: get_full_name normalizes the token, returns the value of a key hit by
\* the first strategy (exact, case-insensitive, space-removed, space-removed
\* and case-insensitive) that hits any key, the title-cased normalized token
\* when none does, and leaves the table unchanged.
NameFallbackOrder ==
  NameCalled =>
    LET m == probe.table
        n == NormalizeSpaces(probe.short_name)
        tried == {k \in 1..4 : Hits(m, k, n) # {}}
    IN /\ IsNormalized(probe.short_name, n)
       /\ tried # {} => probe.out \in {m[i].value : i \in Hits(m, Min(tried), n)}
       /\ tried = {} => probe.out = Title(n)
       /\ STUDENT_NAME_MAPPINGS = probe.table

\* C10 witness: the case-insensitive strategy hits one key and the space-removed
\* strategy a different key with another value; the former's value is returned
NameFallbackOrderWitness ==
  /\ NameCalled
  /\ probe.short_name = <<"a", " ", " ", "b">>
  /\ probe.table = <<[key |-> <<"a", "b">>, value |-> <<"W">>], [key |-> <<"A", " ", "B">>, value |-> <<"V">>]>>
  /\ probe.out = <<"V">>

\* ---- the index invariant (spec section 3)
Range(seq) == {seq[i] : i \in 1..Len(seq)}

\* the places (sublist, position) at which a transaction object is held
Places(cd, oid) ==
  {<<i, p>> \in (1..Len(cd)) \X (1..Len(objs)) : p <= Len(cd[i].items) /\ cd[i].items[p] = oid}

\* every transaction of the flat list is held at exactly one place of the
\* index, under the key equal to its category field, and the index holds no
\* transaction that the flat list lacks
IndexInvariant ==
  /\ \A oid \in Range(transactions) :
       /\ Cardinality(Places(categorized_data, oid)) = 1
       /\ \A pl \in Places(categorized_data, oid) :
            categorized_data[pl[1]].key = objs[oid].category
  /\ \A i \in 1..Len(categorized_data) :
       Range(categorized_data[i].items) \subseteq Range(transactions)

\* ---- C1, C2: the ledger
\* a step of edit_transaction, bulk_edit_transactions,
\* delete_selected_transactions or duplicate_selected_transactions
Mutation ==
  \/ \E out \in UNION {EditOutcomes(objs[o], categorized_data) : o \in 1..Len(objs)} :
       EditSelected(out)
  \/ \E category \in CdKeySet(categorized_data) : BulkEditSelected(category)
  \/ DeleteSelected
  \/ \E outs \in DuplicateOutcomes(objs, categorized_data, Selected) : DuplicateSelected(outs)

\* C1 (as stated): the index invariant is kept by every edit, bulk edit, delete
\* and duplicate: a mutation of a ledger in which every transaction of the flat
\* list is in exactly one sublist, the one of its category, and no sublist holds
\* a transaction the flat list lacks, leaves a ledger of which the same is true.
IndexInvariantUnderMutation ==
  [][(IndexInvariant /\ Mutation) => IndexInvariant']_vars

SublistSizes(cd) == Len(AllRefs(cd))

\* every transaction of the flat list is at exactly one place of the index,
\* and the sublists together are as long as the flat list
ReclassifiedTotal ==
  /\ \A oid \in Range(transactions) : Cardinality(Places(categorized_data, oid)) = 1
  /\ SublistSizes(categorized_data) = Len(transactions)

\* C2 (as stated): after the Save of the category manager has rebuilt the index
\* and re-classified the ledger, whatever list was saved, every transaction is
\* in exactly one sublist and the sizes of the sublists add up to the size of
\* the flat list.
ReclassificationIsTotal ==
  [][manage_categories(TRUE) => ReclassifiedTotal']_vars

\* ---- C5, C6, C9: process_csv
IngestCalled == probe.fn = "process_csv" /\ probe.phase = "called"

\* C5 (as stated): a fresh ingest never fails because of a data line: process_csv
\* returns normally, and the flat list and the index agree.
IngestNeverFails == IngestCalled => (raised = "none" /\ IndexInvariant)

\* the row tokenizes to fewer than 8 fields, or its credit field is empty after
\* trimming, or its credit field (commas removed) is no number
BadRow(line) ==
  LET parts == parse_csv_line(line)
  IN \/ Len(parts) < 8
     \/ Trim(parts[7]) = <<>>
     \/ ~ParseFloat(Remove(Trim(parts[7]), ",")).ok

DataRowIndexes(lines) == StartIndex(lines, 1)..Len(lines)

\* C6: a data row with fewer than 8 fields, an empty credit or an unparsable
\* credit contributes nothing: the ledger after the ingest equals the ledger
\* of the same file without that row.
BadRowContributesNothing ==
  IngestCalled =>
    \A i \in DataRowIndexes(probe.lines) :
      BadRow(probe.lines[i]) =>
        LET without == FreshIngest(categories, STUDENT_NAME_MAPPINGS, RemoveAt(probe.lines, i))
        IN /\ without.objs = objs
           /\ without.transactions = transactions
           /\ without.cd = categorized_data
           /\ Len(transactions) <= Cardinality({j \in DataRowIndexes(probe.lines) : ~BadRow(probe.lines[j])})

\* C6 witness: a header, a debit row with an empty credit, then a credit row;
\* the ledger holds the one transaction of the credit row
BadRowContributesNothingWitness ==
  /\ IngestCalled
  /\ probe.lines = <<L_Header, L_NoCredit, L_Credit500>>
  /\ Len(transactions) = 1
  /\ objs[transactions[1]].amount = 50000
  /\ raised = "none"

\* C9 (as stated): the header followed by the scenario's data line, with or
\* without a line terminator after it, yields exactly one transaction: date
\* 05-01-2024, display name John Doe, amount 500.0, key "Tuition (Rs500)".
EndToEndScenario ==
  (/\ IngestCalled
   /\ probe.lines \in {<<L_Header, L_Credit500>>, <<L_Header, L_Credit500NoNewline>>}
   /\ categories = <<[name |-> S_Tuition, fee |-> 50000]>>)
  => /\ raised = "none"
     /\ Len(transactions) = 1
     /\ LET t == objs[transactions[1]]
        IN /\ t.date = <<"0", "5", "-", "0", "1", "-", "2", "0", "2", "4">>
           /\ t.name = S_John_Doe
           /\ t.amount = 50000
           /\ t.category = S_Tuition \o <<" ", "(", "Rs", "5", "0", "0", ")">>

\* ---- C11: a fresh ingest over a ledger that is not empty
ReingestCalled == probe.fn = "upload_file" /\ probe.phase = "called"

\* the ledger the lines yield on an application that holds no transaction
FromEmpty(lines) ==
  ProcessLines(categories, STUDENT_NAME_MAPPINGS,
               [objs |-> <<>>, transactions |-> <<>>,
                cd |-> BuildIndex(categories), raised |-> "none"],
               lines, StartIndex(lines, 1))

\* C11: after a fresh ingest the flat list and the sublists hold exactly what
\* the new file yields on an empty ledger, whatever was held before the call.
IngestReplacesLedger ==
  ReingestCalled =>
    /\ objs = FromEmpty(probe.lines).objs
    /\ transactions = FromEmpty(probe.lines).transactions
    /\ categorized_data = FromEmpty(probe.lines).cd

\* C11 witness: a ledger of two transactions was replaced by the one
\* transaction of a file with a single credit row
IngestReplacesLedgerWitness ==
  /\ ReingestCalled
  /\ probe.before = 2
  /\ probe.lines = <<L_Header, L_Credit77>>
  /\ Len(transactions) = 1
  /\ objs[transactions[1]].amount = 7700
  /\ AllRefs(categorized_data) = <<1>>

\* ---- C12, C13, C14: the category manager
DialogCalled(op) == probe.fn = "CategoryManagerDialog" /\ probe.op = op

\* the name the request carries
RequestName == Strip(probe.text, Whitespace)

\* another definition of the list has the requested name in some letter case,
\* the requested non-zero fee, or is a variable one while fee 0 is requested
Conflicts ==
  \E k \in 1..Len(probe.before) :
    /\ probe.op = "update" => k # probe.i
    /\ \/ Lower(probe.before[k].name) = Lower(RequestName)
       \/ probe.fee # 0 /\ probe.before[k].fee = probe.fee
       \/ probe.fee = 0 /\ probe.before[k].fee \in {None, 0}

\* C12: an add or update whose name, fixed fee or variable fee conflicts with
\* another definition leaves the list of the dialog as it was.
RejectedRequestChangesNothing ==
  ((DialogCalled("add") \/ DialogCalled("update")) /\ Conflicts)
    => dialog.categories = probe.before

\* C12 witness: Donations renamed to tuition while Tuition exists
RejectedRequestChangesNothingWitness ==
  /\ DialogCalled("update")
  /\ probe.i = 2
  /\ probe.text = S_tuition
  /\ probe.before = <<[name |-> S_Tuition, fee |-> 50000], [name |-> S_Donations, fee |-> None]>>
  /\ dialog.categories = probe.before

AbsentFees(cats) == {k \in 1..Len(cats) : cats[k].fee = None}

CategorySetOk(cats) ==
  /\ Cardinality(AbsentFees(cats)) <= 1
  /\ \A j, k \in 1..Len(cats) :
       j < k => /\ Lower(cats[j].name) # Lower(cats[k].name)
                /\ ~(cats[j].fee # None /\ cats[j].fee = cats[k].fee)

\* C13: the list of the dialog, opened on a list with at most one absent fee,
\* names distinct in every letter case and fixed fees distinct, stays such a
\* list under add_category, update_category and delete_category.
CategorySetInvariant == dialog.open => CategorySetOk(dialog.categories)

\* C13 witness: an accepted update of a list of two definitions
CategorySetInvariantWitness ==
  /\ DialogCalled("update")
  /\ Len(dialog.categories) = 2
  /\ dialog.categories # probe.before
  /\ CategorySetOk(probe.before)

\* C14 (as stated): the definitions of a list the validation has accepted have
\* pairwise different keys, and the index built from the list has as many keys
\* as the list has definitions.
KeyIdentifiesCategory ==
  dialog.open =>
    /\ \A j, k \in 1..Len(dialog.categories) :
         j # k => KeyOf(dialog.categories[j]) # KeyOf(dialog.categories[k])
    /\ Len(BuildIndex(dialog.categories)) = Len(dialog.categories)

\* ---- C15, C20: the index and the journal of a statement in a writable folder
\* C15 (as stated): the keys of the index are the keys get_category_key gives
\* for the definitions of the current category list, no more and no fewer, in
\* every state: after start-up, a fresh parse, a resume from the journal, a
\* saved category edit and every mutation of the ledger.
IndexKeysAreCategoryKeys ==
  CdKeySet(categorized_data) = {KeyOf(categories[k]) : k \in 1..Len(categories)}

\* the journal of the loaded statement holds the flat list and the category list
JournalIsCurrent ==
  \E e \in journal.files :
    /\ e.csv_file = current_csv_file
    /\ e.transactions = Snapshot(objs, transactions)
    /\ e.categories = categories

\* C20 (as stated): when an edit, a bulk edit, a delete, a duplicate or the
\* re-classification after a saved category edit has completed on a loaded
\* statement, the journal of the statement holds the current flat list and the
\* current category list, also when the last transaction has been deleted.
JournalFollowsEveryMutation ==
  [][((Mutation \/ manage_categories(TRUE))
        /\ current_csv_file # NoFile
        /\ <<objs, transactions, categorized_data, categories>>' #
             <<objs, transactions, categorized_data, categories>>
        /\ raised' = "none")
       => JournalIsCurrent']_vars

\* ---- C16: an edit that changes the category
\* a list without its first reference to oid
Without(items, oid) ==
  IF \E i \in 1..Len(items) : items[i] = oid
  THEN RemoveAt(items, CHOOSE i \in 1..Len(items) :
                         items[i] = oid /\ \A j \in 1..(i - 1) : items[j] # oid)
  ELSE items

\* edit_transaction on the selected transaction with outcome out moves it from
\* the sublist of its category to the end of the sublist of the chosen key and
\* touches nothing else
MovedByEdit(oid, out) ==
  LET A == objs[oid].category
      B == out.category
      r == edit_transaction(Ledger, oid, out)
  IN /\ r.raised = "none"
     /\ CdGet(r.cd, A) = Without(CdGet(categorized_data, A), oid)
     /\ \A i \in 1..Len(CdGet(r.cd, A)) : CdGet(r.cd, A)[i] # oid
     /\ CdGet(r.cd, B) = Append(CdGet(categorized_data, B), oid)
     /\ CdKeys(r.cd) = CdKeys(categorized_data)
     /\ \A k \in 1..Len(r.cd) : r.cd[k].key \notin {A, B} => r.cd[k] = categorized_data[k]
     /\ r.transactions = transactions

\* C16: an accepted edit of the selected transaction that changes its category
\* from key A to another key B removes it from the sublist of A and appends it
\* to the sublist of B; the other transactions of both sublists keep their
\* order, every other sublist and the flat list stay as they were.
EditMovesBetweenSublists ==
  (~dialog.open /\ selected_transactions # {} /\ Len(Selected) = 1) =>
    \A out \in EditOutcomes(objs[Selected[1]], categorized_data) :
      (/\ out.category # objs[Selected[1]].category
       /\ CdHas(categorized_data, objs[Selected[1]].category)
       /\ CdHas(categorized_data, out.category))
        => MovedByEdit(Selected[1], out)

\* ---- C17: a delete of a transaction that one of the two structures lacks
\* the dict oid is in the flat list and in the sublist of its category
PresentInBoth(oid) ==
  /\ \E i \in 1..Len(transactions) : transactions[i] = oid
  /\ CdHas(categorized_data, objs[oid].category)
  /\ \E i \in 1..Len(CdGet(categorized_data, objs[oid].category)) :
       CdGet(categorized_data, objs[oid].category)[i] = oid

\* C17 (as stated): the delete of a selected transaction that is not in both
\* the flat list and the sublist of its category changes neither the flat list
\* nor any sublist.
FailedDeleteChangesNothing ==
  (~dialog.open /\ selected_transactions # {} /\ Selected # <<>>
     /\ ~PresentInBoth(Selected[1]))
    => LET r == DeleteOne(Ledger, Selected[1])
       IN r.transactions = transactions /\ r.cd = categorized_data

\* ---- C18: a duplicate committed with the dialog untouched
\* the ledger after duplicate_selected_transactions has handled the dict oid
DuplicatedUntouched(oid, today) ==
  DuplicateOne(Ledger, oid, Untouched(DuplicateOf(objs[oid]), categorized_data, today))

\* the last dict of the flat list of r is a copy of the dict oid but for its
\* reference, is also the last of the sublist of its category, and the
\* dicts the ledger had are as they were
CopyOf(r, oid) ==
  LET nid == r.transactions[Len(r.transactions)]
      new == r.objs[nid]
      src == objs[oid]
  IN /\ r.transactions = Append(transactions, nid)
     /\ nid \notin 1..Len(objs)
     /\ new = [src EXCEPT !.reference = @ \o S_COPY]
     /\ CdHas(r.cd, new.category)
     /\ CdGet(r.cd, new.category) = Append(CdGet(categorized_data, new.category), nid)
     /\ \A o \in 1..Len(objs) : r.objs[o] = objs[o]

\* C18 (as stated): the duplicate of a selected transaction, committed with
\* nothing changed in the dialog, is appended to the flat list and to the
\* sublist of its category, agrees with its source in date, name, short name,
\* amount, category and description, has the reference of the source followed
\* by _COPY, and leaves the source as it was.
UntouchedDuplicateIsCopy ==
  (~dialog.open /\ selected_transactions # {})
    => \A k \in 1..Len(Selected), today \in CurrentDates :
         CopyOf(DuplicatedUntouched(Selected[k], today), Selected[k])

\* ---- C19: bulk_edit_transactions
\* how often the sublist of key holds the dict oid
Occurrences(cd, key, oid) ==
  Cardinality({i \in 1..Len(CdGet(cd, key)) : CdGet(cd, key)[i] = oid})

\* the ledger r, made of the present one by a bulk edit of the selected
\* transactions to key K, has each of them once under K and nowhere else, and
\* has every other transaction where it was
BulkEdited(r, K) ==
  LET S == {Selected[k] : k \in 1..Len(Selected)}
  IN /\ r.raised = "none"
     /\ \A o \in S :
          /\ r.objs[o].category = K
          /\ \A key \in CdKeySet(r.cd) :
               Occurrences(r.cd, key, o) = IF key = K THEN 1 ELSE 0
     /\ \A o \in (1..Len(objs)) \ S :
          /\ r.objs[o].category = objs[o].category
          /\ \A key \in CdKeySet(r.cd) :
               Occurrences(r.cd, key, o) = Occurrences(categorized_data, key, o)

\* C19 (as stated): after bulk_edit_transactions has applied the key K to the
\* selected transactions of a ledger that satisfies the index invariant, each
\* of them has category K and is once in the sublist of K and in no other,
\* and every other transaction has kept its category and its sublists.
BulkEditPostcondition ==
  (~dialog.open /\ selected_transactions # {} /\ Len(Selected) > 1 /\ IndexInvariant)
    => \A K \in CdKeySet(categorized_data) :
         BulkEdited(bulk_edit_transactions(Ledger, Selected, K), K)

\* ---- C21: re-classification and manual overrides
\* C21: when recategorize_transactions has completed, every transaction of the
\* flat list has the category categorize_transaction gives for its amount
\* under the saved category list, whatever category it had, and is in the
\* sublist of that key.
OverridesAreNotSticky ==
  (probe.fn = "recategorize_transactions" /\ probe.completed)
    => \A i \in 1..Len(transactions) :
         LET t == objs[transactions[i]]
         IN /\ t.category = Categorize(categories, t.amount)
            /\ CdHas(categorized_data, t.category)
            /\ \E k \in 1..Len(CdGet(categorized_data, t.category)) :
                 CdGet(categorized_data, t.category)[k] = transactions[i]

\* C21 witness: a re-classification that completed on a ledger of two
\* transactions one of which the user had moved to another category
OverridesAreNotStickyWitness ==
  /\ probe.fn = "recategorize_transactions"
  /\ probe.completed
  /\ probe.overridden
  /\ probe.before = 2
  /\ Len(transactions) = 2

\* ---- C22, C23: the search timer
\* while the timer runs, perform_search has not run for the burst in progress
\* and the time left is the delay less the time since the last change; the
\* timer runs perform_search at most once per burst, search_delay after the
\* burst's last change
DebounceSafe ==
  /\ search_timer # None
       => /\ probe.changes >= 1
          /\ probe.runs = 0
          /\ probe.elapsed + search_timer = search_delay
  /\ probe.runs <= 1
  /\ probe.runs = 1 => search_timer = None /\ probe.ran_after >= search_delay

\* C22: a burst of k >= 1 text changes, each arriving while the timer started
\* by the one before is running, is followed by exactly one run of
\* perform_search, after the last change and not before search_delay has
\* elapsed since it
Debounce ==
  /\ []DebounceSafe
  /\ (search_timer # None) ~> (search_timer = None /\ probe.runs = 1)

DebounceWitness ==
  /\ probe.fn = "search"
  /\ probe.changes >= 2
  /\ probe.runs = 1
  /\ probe.ran_after = search_delay
  /\ search_timer = None

\* C23: once toggle_search has closed the panel or clear_search has returned,
\* and until the user changes the search text again, no timer is pending and
\* the timer has not run perform_search
NoSearchAfterClose ==
  (probe.fn = "search" /\ probe.closed) => search_timer = None /\ probe.stale_runs = 0

\* ---- C24: the guard of update_display
RenderGuardInv ==
  /\ render.depth <= 1
  /\ updating_display <=> render.depth = 1

\* a call made while the flag is set changes nothing
NestedReturns ==
  (updating_display /\ probe.fn = "update_display" /\ ~probe.rejected /\ probe'.rejected)
    => /\ table' = table
       /\ color_cache' = color_cache
       /\ selected_transactions' = selected_transactions
       /\ render' = render
       /\ updating_display'

\* the body taken row by row leaves what update_display as a whole leaves
BodyShows ==
  (probe.fn = "update_display" /\ render.depth = 1 /\ render'.depth = 0)
    => /\ table' = probe.expected.table
       /\ raised' = probe.expected.raised
       /\ selected_transactions' = {}
       /\ color_cache' = EmptyCache

\* C24: at most one body of update_display is in progress at any time; a call
\* made while the flag is set returns without changing the table, the colour
\* cache or the selection; the flag is set exactly while a body is in
\* progress, so it is false after a body that ended with an exception
RenderGuard ==
  /\ []RenderGuardInv
  /\ [][NestedReturns]_vars
  /\ [][BodyShows]_vars

RenderGuardWitness ==
  /\ probe.fn = "update_display"
  /\ probe.rejected
  /\ render.depth = 0
  /\ raised = "TypeError"
  /\ probe.expected.raised = "TypeError"
  /\ ~updating_display

\* ---- C25, C26: the rows process_csv takes
\* C25: every transaction of the flat list has an amount of zero or more
AmountsNonNegative ==
  \A i \in 1..Len(transactions) : objs[transactions[i]].amount >= 0

\* the lines the extractor is to skip before it tokenizes: blank, or nothing
\* but a leading comma
BlankOrLoneComma(line) ==
  LET t == Strip(line, Whitespace) IN t = <<>> \/ t = <<",">>

\* C26: a line after the header is skipped before tokenization if and only if
\* it is blank or only a leading comma; a line that starts with a comma and
\* carries further fields is extracted like any other row, so the ledger holds
\* one transaction for every line that is neither skipped nor a bad row
SkipRule ==
  (IngestCalled /\ raised = "none")
    => /\ \A i \in DataRowIndexes(probe.lines) :
            SkippedLine(probe.lines[i]) <=> BlankOrLoneComma(probe.lines[i])
       /\ Len(transactions) =
            Cardinality({i \in DataRowIndexes(probe.lines) :
                           ~BlankOrLoneComma(probe.lines[i]) /\ ~BadRow(probe.lines[i])})

\* ---- C27: the journal resumed
\* the transactions of the sublist of key, by value; none when key is no key
SublistOf(heap, cd, key) == IF CdHas(cd, key) THEN Snapshot(heap, CdGet(cd, key)) ELSE <<>>

\* resuming the journal of the loaded statement gives the ledger as it is
ResumeGivesLedger ==
  LET st == ResumeIngest(categories, load_saved_data(current_csv_file, journal))
  IN /\ Snapshot(st.objs, st.transactions) = Snapshot(objs, transactions)
     /\ \A key \in CdKeySet(st.cd) \cup CdKeySet(categorized_data) :
          SublistOf(st.objs, st.cd, key) = SublistOf(objs, categorized_data, key)

\* C27: whenever a handler has written the journal of a ledger that satisfies
\* the index invariant, with the category list as it was at the start,
\* re-opening the statement and resuming gives the flat list and every
\* sublist as they were at the save, elements and order
ResumeRoundTrip ==
  [][(/\ journal' # journal
      /\ HasSaved(current_csv_file', journal')
      /\ categories' \in JournalCatLists
      /\ raised' = "none"
      /\ IndexInvariant') => ResumeGivesLedger']_vars

\* ---- C28, C29: transaction ids
\* C28: every selected id is the id of a transaction of the flat list
SelectionValid ==
  \A tid \in selected_transactions :
     \E i \in 1..Len(transactions) : get_transaction_id(objs[transactions[i]]) = tid

\* C29: no two transactions of the flat list have the same id
IdsUnique ==
  \A i, j \in 1..Len(transactions) :
     get_transaction_id(objs[transactions[i]]) = get_transaction_id(objs[transactions[j]])
       => i = j

\* ---- C30: the summary panel
\* the Grand Total is the sum of the amounts of the flat list and the counts
\* of the labels add up to its size
SummaryAgrees ==
  LET shown == update_summary(categories, objs, categorized_data)
  IN /\ shown.total_amount = SumAmounts(objs, transactions)
     /\ SumSeq(shown.counts) = Len(transactions)

\* C30: whenever a handler has changed the ledger and redrawn the table, the
\* category list holds a category without a fee, and the ledger satisfies the
\* index invariant, the summary update_summary has drawn agrees with the flat
\* list
SummaryTotals ==
  [][(/\ <<objs, transactions, categorized_data>>' # <<objs, transactions, categorized_data>>
      /\ raised' = "none"
      /\ \E i \in 1..Len(categories') : categories'[i].fee = None
      /\ IndexInvariant') => SummaryAgrees']_vars

====
